---- MODULE Spec2Model ----
(***************************************************************************)
(* Model of the parametric equaliser: the DSP core (filters.py, engine.py) *)
(* and the audio backend that drives it from two threads (stream.py).      *)
(*                                                                         *)
(* Numbers.  The program computes in IEEE floating point: coefficients and *)
(* the arithmetic of the filter loop are float64, the delay registers and  *)
(* the audio blocks of the stream are float32.  The model keeps the two    *)
(* widths as two fixed-point grids: a float64 is an integer count of       *)
(* 1/Unit, a float32 is a float64 that is a multiple of Sub.  Every        *)
(* product rounds to the float64 grid, every store into a float32 array    *)
(* rounds to the float32 grid.  Transcendental functions (sin, cos, 10^x)  *)
(* are tabulated in ten-thousandths for the arguments the model uses.      *)
(***************************************************************************)
EXTENDS Integers, Sequences, FiniteSets, TLC

\* float32 grid steps per 1.0
F32Unit == 4
\* float64 grid points per float32 step
Sub == 4
\* float64 grid points per 1.0
Unit == F32Unit * Sub
\* the grid of the tabulated transcendental values and of the raw coefficients
Fine == 10 * 1000

RoundDiv(n, d) == (2 * n + d) \div (2 * d)

\* Body applied to the value of an expression, which is computed once
With(value, Body(_)) == CHOOSE r \in {Body(x) : x \in {value}} : TRUE

\* float64 product of two float64 values
Mul(a, b) == RoundDiv(a * b, Unit)

\* conversion of a float64 value to float32 (a store into a float32 array)
ToF32(n) == RoundDiv(n, Sub) * Sub

\* a store into an array of the given dtype
Cast(dtype, n) == IF dtype = "f32" THEN ToF32(n) ELSE n

Max(a, b) == IF a > b THEN a ELSE b

Min(a, b) == IF a < b THEN a ELSE b

\* np.clip on one value: minimum(maximum(x, lo), hi), also when lo > hi
np_clip(x, lo, hi) == Min(Max(x, lo), hi)

RECURSIVE SeqSum(_)
SeqSum(s) == IF s = <<>> THEN 0 ELSE Head(s) + SeqSum(Tail(s))

\* float(np.sqrt(v)) of a float64 value v >= 0, on the float64 grid
Sqrt(v) == CHOOSE r \in 0..(v + Unit) : r * r <= v * Unit /\ (r + 1) * (r + 1) > v * Unit

(***************************************************************************)
(* filters.py: EQBand.  frequency in Hz, gain_db in dB, q in hundredths.   *)
(***************************************************************************)
EQBand(frequency, gain_db, q, enabled) ==
    [frequency |-> frequency, gain_db |-> gain_db, q |-> q, enabled |-> enabled]

MinFreq == 20

\* sample_rate / 2.1, rounded to the grid of frequencies (whole Hz)
MaxFreq(sample_rate) == (sample_rate * 10) \div 21

\* a clip that bounds the frequency from above only
EQBand_clip_upper(band, min_freq, max_freq) ==
    EQBand(Min(band.frequency, max_freq), band.gain_db, band.q, band.enabled)

EQBand_clip(band, min_freq, max_freq) ==
    EQBand(np_clip(band.frequency, min_freq, max_freq), band.gain_db, band.q, band.enabled)

\* np.sin(2 * np.pi * freq / sample_rate), in ten-thousandths
SinOmega(freq, sample_rate) ==
    CASE freq = 20 /\ sample_rate = 48000 -> 26
      [] freq = 1000 /\ sample_rate = 48000 -> 1305
      [] freq = 2000 /\ sample_rate = 48000 -> 2588
      [] freq = 22857 /\ sample_rate = 48000 -> 1491
      [] freq = 20 /\ sample_rate = 44100 -> 28
      [] freq = 1000 /\ sample_rate = 44100 -> 1420
      [] freq = 2000 /\ sample_rate = 44100 -> 2811
      [] freq = 21000 /\ sample_rate = 44100 -> 1490
      [] freq = 10 /\ sample_rate = 21 -> 1490
      [] freq = -22858 /\ sample_rate = -48000 -> 1490

\* np.cos(2 * np.pi * freq / sample_rate), in ten-thousandths
CosOmega(freq, sample_rate) ==
    CASE freq = 20 /\ sample_rate = 48000 -> 10000
      [] freq = 1000 /\ sample_rate = 48000 -> 9914
      [] freq = 2000 /\ sample_rate = 48000 -> 9659
      [] freq = 22857 /\ sample_rate = 48000 -> -9888
      [] freq = 20 /\ sample_rate = 44100 -> 10000
      [] freq = 1000 /\ sample_rate = 44100 -> 9899
      [] freq = 2000 /\ sample_rate = 44100 -> 9597
      [] freq = 21000 /\ sample_rate = 44100 -> -9888
      [] freq = 10 /\ sample_rate = 21 -> -9888
      [] freq = -22858 /\ sample_rate = -48000 -> -9888

\* 10 ** (gain / 20.0) in the place of 10 ** (gain / 40.0)
Pow10_40_as_20(gain) ==
    CASE gain = -12 -> 2512
      [] gain = -6 -> 5012
      [] gain = 0 -> Fine
      [] gain = 6 -> 19953
      [] gain = 12 -> 39811

\* 10 ** (gain / 40.0), in ten-thousandths
Pow10_40(gain) ==
    CASE gain = -12 -> 5012
      [] gain = -6 -> 7079
      [] gain = 0 -> Fine
      [] gain = 6 -> 14125
      [] gain = 12 -> 19953

\* max(0.05, band.q), q in hundredths
QFloor == 5

\* a design with the feedback coefficient a1 of the opposite sign
design_peaking_eq_a1_sign(band, sample_rate) ==
    IF ~band.enabled
    THEN [b |-> <<Fine, 0, 0>>, a |-> <<Fine, 0, 0>>]
    ELSE LET freq == np_clip(band.frequency, MinFreq, MaxFreq(sample_rate))
             q == Max(QFloor, band.q)
             a_gain == Pow10_40(band.gain_db)
             alpha == RoundDiv(SinOmega(freq, sample_rate) * 100, 2 * q)
             b0 == Fine + RoundDiv(alpha * a_gain, Fine)
             b1 == -2 * CosOmega(freq, sample_rate)
             b2 == Fine - RoundDiv(alpha * a_gain, Fine)
             a0 == Fine + RoundDiv(alpha * Fine, a_gain)
             a1 == 2 * CosOmega(freq, sample_rate)
             a2 == Fine - RoundDiv(alpha * Fine, a_gain)
         IN [b |-> <<b0, b1, b2>>, a |-> <<a0, a1, a2>>]

\* a design that does not look at the enabled flag
design_peaking_eq_always(band, sample_rate) ==
    LET freq == np_clip(band.frequency, MinFreq, MaxFreq(sample_rate))
        q == Max(QFloor, band.q)
        a_gain == Pow10_40(band.gain_db)
        alpha == RoundDiv(SinOmega(freq, sample_rate) * 100, 2 * q)
        b0 == Fine + RoundDiv(alpha * a_gain, Fine)
        b1 == -2 * CosOmega(freq, sample_rate)
        b2 == Fine - RoundDiv(alpha * a_gain, Fine)
        a0 == Fine + RoundDiv(alpha * Fine, a_gain)
        a1 == -2 * CosOmega(freq, sample_rate)
        a2 == Fine - RoundDiv(alpha * Fine, a_gain)
    IN [b |-> <<b0, b1, b2>>, a |-> <<a0, a1, a2>>]

\* the raw (not normalised) RBJ coefficients, in ten-thousandths
design_peaking_eq(band, sample_rate) ==
    IF ~band.enabled
    THEN [b |-> <<Fine, 0, 0>>, a |-> <<Fine, 0, 0>>]
    ELSE LET freq == np_clip(band.frequency, MinFreq, MaxFreq(sample_rate))
             q == Max(QFloor, band.q)
             a_gain == Pow10_40(band.gain_db)
             alpha == RoundDiv(SinOmega(freq, sample_rate) * 100, 2 * q)
             b0 == Fine + RoundDiv(alpha * a_gain, Fine)
             b1 == -2 * CosOmega(freq, sample_rate)
             b2 == Fine - RoundDiv(alpha * a_gain, Fine)
             a0 == Fine + RoundDiv(alpha * Fine, a_gain)
             a1 == -2 * CosOmega(freq, sample_rate)
             a2 == Fine - RoundDiv(alpha * Fine, a_gain)
         IN [b |-> <<b0, b1, b2>>, a |-> <<a0, a1, a2>>]

(***************************************************************************)
(* filters.py: BiquadFilter.  The coefficients are float64 (grid 1/Unit),  *)
(* state is the (channels, 2) float32 array of delay registers.            *)
(***************************************************************************)
ZeroState(channels) == [ch \in 1..channels |-> <<0, 0>>]

BiquadFilter_init(b, a, channels) ==
    [err |-> channels < 1,
     b0 |-> RoundDiv(b[1] * Unit, a[1]),
     b1 |-> RoundDiv(b[2] * Unit, a[1]),
     b2 |-> RoundDiv(b[3] * Unit, a[1]),
     a1 |-> RoundDiv(a[2] * Unit, a[1]),
     a2 |-> RoundDiv(a[3] * Unit, a[1]),
     channels |-> channels,
     state |-> ZeroState(channels)]

from_eq_band(band, sample_rate, channels) ==
    LET c == design_peaking_eq(band, sample_rate)
    IN BiquadFilter_init(c.b, c.a, channels)

(***************************************************************************)
(* An audio block: a numpy array.  ndim is its dimensionality; a 2-D block *)
(* has Len(rows) frames of chans samples each; dtype is "f32" or "f64".    *)
(***************************************************************************)
Block(dtype, chans, rows) == [ndim |-> 2, dtype |-> dtype, chans |-> chans, rows |-> rows]

Frames(block) == Len(block.rows)

Column(block, ch) == [i \in 1..Frames(block) |-> block.rows[i][ch]]

\* the inner loop of process over one channel: x the samples still to come,
\* z1, z2 the registers (float64 inside the loop), y the outputs stored so far
RECURSIVE sample_loop(_, _, _, _, _, _)
sample_loop(f, dtype, x, z1, z2, y) ==
    IF x = <<>>
    THEN [y |-> y, z1 |-> z1, z2 |-> z2]
    ELSE LET sample == Head(x)
             out == Mul(f.b0, sample) + z1
             z1_new == Mul(f.b1, sample) - Mul(f.a1, out) + z2
             z2_new == Mul(f.b2, sample) - Mul(f.a2, out)
         IN sample_loop(f, dtype, Tail(x), z1_new, z2_new, Append(y, Cast(dtype, out)))

\* what the registers of a channel hold after the loop: the store into self.state
StoreState(z1, z2) == <<ToF32(z1), ToF32(z2)>>

\* a process that runs the loop over the first channel only and returns that
\* channel
BiquadFilter_process_first(f, block) ==
    IF block.ndim # 2 \/ block.chans # f.channels
    THEN [err |-> TRUE, y |-> block, filt |-> f]
    ELSE With([ch \in 1..Min(f.channels, 1) |->
                 sample_loop(f, block.dtype, Column(block, ch),
                             f.state[ch][1], f.state[ch][2], <<>>)],
              LAMBDA run :
                [err |-> FALSE,
                 y |-> Block(block.dtype, Min(f.channels, 1),
                             [i \in 1..Frames(block) |->
                                [ch \in 1..Min(f.channels, 1) |-> run[ch].y[i]]]),
                 filt |-> [f EXCEPT !.state =
                             [ch \in 1..f.channels |->
                                IF ch = 1 THEN StoreState(run[ch].z1, run[ch].z2)
                                ELSE f.state[ch]]]])

BiquadFilter_process(f, block) ==
    IF block.ndim # 2 \/ block.chans # f.channels
    THEN [err |-> TRUE, y |-> block, filt |-> f]
    ELSE With([ch \in 1..f.channels |->
                 sample_loop(f, block.dtype, Column(block, ch),
                             f.state[ch][1], f.state[ch][2], <<>>)],
              LAMBDA run :
                [err |-> FALSE,
                 y |-> Block(block.dtype, block.chans,
                             [i \in 1..Frames(block) |->
                                [ch \in 1..f.channels |-> run[ch].y[i]]]),
                 filt |-> [f EXCEPT !.state =
                             [ch \in 1..f.channels |-> StoreState(run[ch].z1, run[ch].z2)]]])

(***************************************************************************)
(* filters.py: EQFilterChain.                                              *)
(***************************************************************************)
EQFilterChain_init(sample_rate, channels) ==
    [sample_rate |-> sample_rate, channels |-> channels, bands |-> <<>>, filters |-> <<>>]

Enabled(band) == band.enabled

\* the two assignments of set_bands: the clamped copies, then one new filter
\* per enabled stored band
ClippedBands(chain, bands) ==
    [i \in 1..Len(bands) |-> EQBand_clip(bands[i], MinFreq, MaxFreq(chain.sample_rate))]

\* a chain that builds a filter for every stored band, disabled ones included
BuildFiltersAll(chain, stored) ==
    [i \in 1..Len(stored) |-> from_eq_band(stored[i], chain.sample_rate, chain.channels)]

BuildFilters(chain, stored) ==
    LET on == SelectSeq(stored, Enabled)
    IN [i \in 1..Len(on) |-> from_eq_band(on[i], chain.sample_rate, chain.channels)]

\* a set_bands that returns early when the stored bands would not change
set_bands_keep(chain, bands) ==
    LET stored == ClippedBands(chain, bands)
    IN IF stored = chain.bands
       THEN chain
       ELSE [chain EXCEPT !.bands = stored, !.filters = BuildFilters(chain, stored)]

\* a BiquadFilter constructor raises while the list of filters is built
BuildRaises(chain, stored) ==
    \E k \in 1..Len(BuildFilters(chain, stored)) : BuildFilters(chain, stored)[k].err

\* when the second assignment raises, the first one has been made
EQFilterChain_set_bands(chain, bands) ==
    LET stored == ClippedBands(chain, bands)
    IN IF BuildRaises(chain, stored)
       THEN [chain EXCEPT !.bands = stored]
       ELSE [chain EXCEPT !.bands = stored, !.filters = BuildFilters(chain, stored)]

\* the loop of process from filter k on: each filter's output is the next one's
\* input; a filter that raises ends the loop with the filters before it advanced
RECURSIVE filter_loop(_, _, _)
filter_loop(filters, k, output) ==
    IF k > Len(filters)
    THEN [err |-> FALSE, output |-> output, filters |-> filters]
    ELSE With(BiquadFilter_process(filters[k], output),
              LAMBDA r : IF r.err
                         THEN [err |-> TRUE, output |-> output, filters |-> filters]
                         ELSE filter_loop([filters EXCEPT ![k] = r.filt], k + 1, r.y))

\* a sequence back to front
Reverse(s) == [i \in 1..Len(s) |-> s[Len(s) + 1 - i]]

\* a process that walks the filters from the last one to the first
EQFilterChain_process_reversed(chain, block) ==
    IF chain.filters = <<>>
    THEN [err |-> FALSE, output |-> block, buf |-> "input", chain |-> chain]
    ELSE With(filter_loop(Reverse(chain.filters), 1, block),
              LAMBDA r : [err |-> r.err, output |-> r.output, buf |-> "y",
                          chain |-> [chain EXCEPT !.filters = Reverse(r.filters)]])

\* buf names the buffer returned: "input" is the caller's own array
EQFilterChain_process(chain, block) ==
    IF chain.filters = <<>>
    THEN [err |-> FALSE, output |-> block, buf |-> "input", chain |-> chain]
    ELSE With(filter_loop(chain.filters, 1, block),
              LAMBDA r : [err |-> r.err, output |-> r.output, buf |-> "y",
                          chain |-> [chain EXCEPT !.filters = r.filters]])

(***************************************************************************)
(* engine.py: MeterSnapshot, EQEngine, rms.                                *)
(***************************************************************************)
MeterSnapshot(input_rms, output_rms) == <<input_rms, output_rms>>

\* 10 ** (gain_db / 20.0), in ten-thousandths
Pow10_20(gain_db) ==
    CASE gain_db = -6 -> 5012
      [] gain_db = -3 -> 7079
      [] gain_db = 0 -> Fine
      [] gain_db = 6 -> 19953

LinearGain(gain_db) == RoundDiv(Pow10_20(gain_db) * Unit, Fine)

\* EQEngine(sample_rate, channels, output_gain_db) with __post_init__
EQEngine_init(sample_rate, channels, output_gain_db) ==
    [sample_rate |-> sample_rate,
     channels |-> channels,
     bypass |-> FALSE,
     output_gain_db |-> output_gain_db,
     output_gain |-> LinearGain(output_gain_db),
     chain |-> EQFilterChain_init(sample_rate, channels),
     meter |-> MeterSnapshot(0, 0)]

EQEngine_set_bands(eng, bands) ==
    [eng EXCEPT !.chain = EQFilterChain_set_bands(eng.chain, bands)]

EQEngine_set_output_gain(eng, gain_db) ==
    [eng EXCEPT !.output_gain_db = gain_db, !.output_gain = LinearGain(gain_db)]

\* np.square(block), in the block's dtype, summed row by row
SquareSum(block) ==
    SeqSum([i \in 1..Frames(block) |->
              SeqSum([ch \in 1..Len(block.rows[i]) |->
                        Cast(block.dtype, Mul(block.rows[i][ch], block.rows[i][ch]))])])

Size(block) == SeqSum([i \in 1..Frames(block) |-> Len(block.rows[i])])

rms(block) ==
    IF Size(block) = 0 THEN 0 ELSE Sqrt(RoundDiv(SquareSum(block), Size(block)))

MapBlock(block, Op(_)) ==
    [block EXCEPT !.rows = [i \in 1..Frames(block) |->
                              [ch \in 1..Len(block.rows[i]) |-> Op(block.rows[i][ch])]]]

\* processed *= self._output_gain, in place in the array's dtype
GainStage(processed, output_gain) ==
    LET Scale(x) == Cast(processed.dtype, Mul(x, output_gain))
    IN MapBlock(processed, Scale)

\* a clip that bounds the samples from above only
ClipUpperOnly(processed) ==
    LET Clamp(x) == IF x > Unit THEN Unit ELSE x
    IN MapBlock(processed, Clamp)

\* np.clip(processed, -1.0, 1.0): a new array
Clip(processed) ==
    LET Clamp(x) == np_clip(x, -Unit, Unit)
    IN MapBlock(processed, Clamp)

\* a validation that forgets the channel count
ShapeOkNdimOnly(eng, block) == block.ndim = 2

ShapeOk(eng, block) == block.ndim = 2 /\ block.chans = eng.channels

\* a store that renews the input level and keeps the output level it finds
StoreMeterInputOnly(eng, input_level, output_level) ==
    [eng EXCEPT !.meter = MeterSnapshot(input_level, eng.meter[2])]

\* self._meter = MeterSnapshot(input_level, output_level)
StoreMeter(eng, input_level, output_level) ==
    [eng EXCEPT !.meter = MeterSnapshot(input_level, output_level)]

\* a process_block that runs the chain before it looks at the bypass flag
ProcessedAlwaysFiltered(eng, block) ==
    With(EQFilterChain_process(eng.chain, block),
         LAMBDA c : IF eng.bypass /\ ~c.err
                    THEN [err |-> FALSE, output |-> block, buf |-> "copy", chain |-> c.chain]
                    ELSE c)

\* a process_block that never looks at the bypass flag
ProcessedIgnoreBypass(eng, block) == EQFilterChain_process(eng.chain, block)

\* a process_block that clears the delay registers of the filters while it is
\* bypassed
ProcessedBypassClears(eng, block) ==
    IF eng.bypass
    THEN [err |-> FALSE, output |-> block, buf |-> "copy",
          chain |-> [eng.chain EXCEPT !.filters =
                       [k \in 1..Len(eng.chain.filters) |->
                          [eng.chain.filters[k] EXCEPT
                             !.state = ZeroState(eng.chain.filters[k].channels)]]]]
    ELSE EQFilterChain_process(eng.chain, block)

\* the local processed of process_block: a copy of the block under bypass, else
\* what the chain returns
Processed(eng, block) ==
    IF eng.bypass
    THEN [err |-> FALSE, output |-> block, buf |-> "copy", chain |-> eng.chain]
    ELSE EQFilterChain_process(eng.chain, block)

\* The result of process_block(block) on engine eng: err (it raised), engine
\* (the engine afterwards), inbuf (the caller's array afterwards), staged (the
\* local processed after the gain stage), ret and ret_buf (the array returned
\* and whether it is the caller's "input" array or a "fresh" one).
EQEngine_process_block(eng, block) ==
    IF ~ShapeOk(eng, block)
    THEN [err |-> TRUE, engine |-> eng, inbuf |-> block, staged |-> block,
          ret |-> block, ret_buf |-> "none"]
    ELSE With(Processed(eng, block),
              LAMBDA c :
                IF c.err
                THEN [err |-> TRUE, engine |-> [eng EXCEPT !.chain = c.chain],
                      inbuf |-> block, staged |-> block, ret |-> block, ret_buf |-> "none"]
                ELSE With(GainStage(c.output, eng.output_gain),
                          LAMBDA staged :
                            [err |-> FALSE,
                             engine |-> StoreMeter([eng EXCEPT !.chain = c.chain],
                                                   rms(block), rms(staged)),
                             inbuf |-> IF c.buf = "input" THEN staged ELSE block,
                             staged |-> staged,
                             ret |-> Clip(staged),
                             ret_buf |-> "fresh"]))

(***************************************************************************)
(* State.                                                                  *)
(*   fpc .. y_whole   the continuity experiment on one BiquadFilter        *)
(*   engine           the EQEngine object                                  *)
(*   pre, last        the engine as it was before the last call made on    *)
(*                    it, and that call: its name, arguments and results   *)
(*   n_calls          the number of calls made on the engine so far        *)
(*   backend          AudioBackend: _bands, _bypass, _output_gain_db; its  *)
(*                    _engine is the variable engine                       *)
(*   lock             who holds AudioBackend._lock                         *)
(*   list_id, lists   the identity of the list object the chain's _filters *)
(*                    refers to, and the stored bands each list object was *)
(*                    built from                                           *)
(*   ctl              the control thread: where it is in the backend       *)
(*                    method it runs, the method's arguments and locals    *)
(*   cb               the audio thread: where it is in _callback, and the  *)
(*                    locals of _callback, process_block and chain.process *)
(*   outdata          the output buffer of the last callback               *)
(*   published        the meter pairs the finished process_block calls     *)
(*                    computed                                             *)
(*   xp               an experiment on the functions of the DSP core: its  *)
(*                    inputs, how far it has got, and its results          *)
(***************************************************************************)
VARIABLES fpc, flt, twin, sig, cut, y_split, y_whole,
          engine, pre, last, n_calls,
          backend, lock, list_id, lists, ctl, cb, outdata, published,
          xp

fvars == <<fpc, flt, twin, sig, cut, y_split, y_whole>>

evars == <<engine, pre, last, n_calls>>

cvars == <<backend, lock, list_id, lists, ctl, cb, outdata, published>>

vars == <<fvars, evars, cvars, xp>>

\* sample_rate of the engine under test
SampleRate == 48000

\* EQEngine.channels and EQEngine.output_gain_db defaults
DefaultChannels == 2

DefaultOutputGainDb == -3

NoBlock == [ndim |-> 0, dtype |-> "f32", chans |-> 0, rows |-> <<>>]

NoFilter == [err |-> FALSE, b0 |-> 0, b1 |-> 0, b2 |-> 0, a1 |-> 0, a2 |-> 0,
             channels |-> 0, state |-> <<>>]

NoCall == [op |-> "none", err |-> FALSE, bands |-> <<>>, block |-> NoBlock,
           inbuf |-> NoBlock, staged |-> NoBlock, ret |-> NoBlock, ret_buf |-> "none"]

\* AudioBackend.block_size as constructed
DefaultBlockSize == 256

\* AudioBackend.__init__.  devices: input_device and output_device are both
\* set; stream: "none" (self._stream is None), "running", or "unstarted" (a
\* Stream object whose start() raised); opened: the samplerate and blocksize
\* the Stream object was made with; starts: the calls of start_audio so far
AudioBackend_init ==
    [bands |-> <<>>, bypass |-> FALSE, output_gain_db |-> DefaultOutputGainDb,
     sample_rate |-> SampleRate, block_size |-> DefaultBlockSize, devices |-> FALSE,
     stream |-> "none", opened |-> <<>>, starts |-> 0, status |-> <<>>]

\* self._engine is None
NoEngine == [none |-> TRUE]

ControlIdle == [pc |-> "idle", bands |-> <<>>, bypass |-> FALSE, gain_db |-> 0,
                ret |-> MeterSnapshot(0, 0), n |-> 0]

CallbackIdle == [pc |-> "idle", indata |-> NoBlock, block |-> NoBlock, input_level |-> 0,
                 processed |-> NoBlock, buf |-> "none", filters |-> <<>>, list |-> 0,
                 list0 |-> 0, k |-> 0, applied |-> <<>>, raised |-> FALSE, calls |-> 0,
                 status0 |-> <<>>, n |-> 0]

\* no stream is running: a caller drives the engine directly
NoThreads ==
    /\ backend = AudioBackend_init
    /\ lock = "free"
    /\ list_id = 0
    /\ lists = <<>>
    /\ ctl = ControlIdle
    /\ cb = CallbackIdle
    /\ outdata = NoBlock
    /\ published = <<>>

\* no experiment on the functions is running
NoExperiment == xp = [pc |-> "off"]

\* the experiment on one filter is not running
FilterIdle ==
    /\ fpc = "off"
    /\ flt = NoFilter
    /\ twin = NoFilter
    /\ sig = NoBlock
    /\ cut = 0
    /\ y_split = <<>>
    /\ y_whole = <<>>

\* a freshly constructed engine, as tools/test_dsp.py makes it
EngineFresh(output_gain_db) ==
    /\ engine = EQEngine_init(SampleRate, DefaultChannels, output_gain_db)
    /\ pre = engine
    /\ last = NoCall
    /\ n_calls = 0

(***************************************************************************)
(* State continuity of one BiquadFilter: a filter instance flt is fed a    *)
(* signal in two calls, an identical instance twin is fed it in one call.  *)
(***************************************************************************)
\* longest signal of the continuity check
MaxSig == 3

\* sample values, in float32 steps
SampleSteps == {-2 * F32Unit, -1, 0, F32Unit}

Samples == {s * Sub : s \in SampleSteps}

\* delay registers a filter may start from, in float32 steps
StartSteps == {-1, 0, F32Unit}

FilterBands ==
    {EQBand(1000, 6, 100, TRUE), EQBand(1000, -6, 150, TRUE), EQBand(30000, 6, 0, TRUE),
     EQBand(10, 0, 100, TRUE), EQBand(1000, 6, 100, FALSE)}

Signals(n) == UNION {[1..k -> Samples] : k \in 0..n}

Rows1(x) == [i \in 1..Len(x) |-> <<x[i]>>]

InitFilter ==
    /\ fpc = "start"
    /\ \E band \in FilterBands, z1 \in StartSteps, z2 \in StartSteps :
          flt = [from_eq_band(band, SampleRate, 1) EXCEPT !.state = <<<<z1 * Sub, z2 * Sub>>>>]
    /\ twin = flt
    /\ \E x \in Signals(MaxSig), dtype \in {"f32", "f64"} : sig = Block(dtype, 1, Rows1(x))
    /\ cut \in 0..Frames(sig)
    /\ y_split = <<>>
    /\ y_whole = <<>>
    /\ EngineFresh(DefaultOutputGainDb)
    /\ NoThreads
    /\ NoExperiment

Part(block, from, to) == Block(block.dtype, block.chans, SubSeq(block.rows, from, to))

FirstPart ==
    /\ fpc = "start"
    /\ \E r \in {BiquadFilter_process(flt, Part(sig, 1, cut))} :
          /\ flt' = r.filt
          /\ y_split' = r.y.rows
    /\ fpc' = "half"
    /\ UNCHANGED <<twin, sig, cut, y_whole, evars, cvars, xp>>

SecondPart ==
    /\ fpc = "half"
    /\ \E r \in {BiquadFilter_process(flt, Part(sig, cut + 1, Frames(sig)))} :
          /\ flt' = r.filt
          /\ y_split' = y_split \o r.y.rows
    /\ fpc' = "split"
    /\ UNCHANGED <<twin, sig, cut, y_whole, evars, cvars, xp>>

Whole ==
    /\ fpc = "split"
    /\ \E r \in {BiquadFilter_process(twin, sig)} :
          /\ twin' = r.filt
          /\ y_whole' = r.y.rows
    /\ fpc' = "done"
    /\ UNCHANGED <<flt, sig, cut, y_split, evars, cvars, xp>>

NextFilter == FirstPart \/ SecondPart \/ Whole

SpecFilter == InitFilter /\ [][NextFilter]_vars

\* C1: feeding a signal to a filter in two calls gives the same output samples
\* and the same final delay registers as feeding it in one call.
StateContinuity ==
    fpc = "done" => y_split = y_whole /\ flt.state = twin.state

(***************************************************************************)
(* One caller driving an EQEngine, call after call.                        *)
(***************************************************************************)
\* most frames in a block
MaxFrames == 1

\* most calls made on the engine in a run
MaxCalls == 4

BandA == EQBand(1000, 6, 100, TRUE)

BandB == EQBand(30000, -6, 0, TRUE)

BandOff == EQBand(10, 6, 100, FALSE)

BandLists == {<<>>, <<BandA>>, <<BandA, BandOff, BandB>>}

Gains == {0, 6}

\* output_gain_db given to the constructor
InitGains == {DefaultOutputGainDb, 0}

\* the frames a stereo block is made of, and those of a mono block
StereoRows == {<<-2 * Unit, Unit>>, <<-Sub, 2 * Unit>>}

MonoRows == {<<Unit>>}

BlocksOf(chans, rowset) ==
    {Block("f32", chans, rows) : rows \in UNION {[1..k -> rowset] : k \in 0..MaxFrames}}

\* a 1-D array
Block1D == [ndim |-> 1, dtype |-> "f32", chans |-> 1, rows |-> <<<<Unit>>>>]

Blocks == BlocksOf(2, StereoRows) \cup BlocksOf(1, MonoRows) \cup {Block1D}

Init == FilterIdle /\ NoThreads /\ NoExperiment /\ \E output_gain_db \in InitGains : EngineFresh(output_gain_db)

SetBands ==
    /\ n_calls < MaxCalls
    /\ \E bands \in BandLists :
          /\ engine' = EQEngine_set_bands(engine, bands)
          /\ last' = [NoCall EXCEPT !.op = "set_bands", !.bands = bands]
    /\ pre' = engine
    /\ n_calls' = n_calls + 1
    /\ UNCHANGED <<xp, fvars, cvars>>

SetOutputGain ==
    /\ n_calls < MaxCalls
    /\ \E gain_db \in Gains : engine' = EQEngine_set_output_gain(engine, gain_db)
    /\ last' = [NoCall EXCEPT !.op = "set_output_gain"]
    /\ pre' = engine
    /\ n_calls' = n_calls + 1
    /\ UNCHANGED <<xp, fvars, cvars>>

SetBypass ==
    /\ n_calls < MaxCalls
    /\ \E bypass \in BOOLEAN : engine' = [engine EXCEPT !.bypass = bypass]
    /\ last' = [NoCall EXCEPT !.op = "set_bypass"]
    /\ pre' = engine
    /\ n_calls' = n_calls + 1
    /\ UNCHANGED <<xp, fvars, cvars>>

ProcessBlock ==
    /\ n_calls < MaxCalls
    /\ \E block \in Blocks :
          \E r \in {EQEngine_process_block(engine, block)} :
             /\ engine' = r.engine
             /\ last' = [op |-> "process_block", err |-> r.err, bands |-> <<>>,
                         block |-> block, inbuf |-> r.inbuf, staged |-> r.staged,
                         ret |-> r.ret, ret_buf |-> r.ret_buf]
    /\ pre' = engine
    /\ n_calls' = n_calls + 1
    /\ UNCHANGED <<xp, fvars, cvars>>

Next == SetBands \/ SetOutputGain \/ SetBypass \/ ProcessBlock

Spec == Init /\ [][Next]_vars

Returned == last.op = "process_block" /\ ~last.err

SamplesOf(block) ==
    {block.rows[i][ch] : i \in 1..Frames(block), ch \in 1..block.chans}

Registers(filters) == [k \in 1..Len(filters) |-> filters[k].state]

Coefficients(f) == <<f.b0, f.b1, f.b2, f.a1, f.a2, f.channels>>

SomeRegisterSet(filters) ==
    \E k \in 1..Len(filters) : filters[k].state # ZeroState(filters[k].channels)

\* C2: every sample process_block returns lies in [-1, 1]: a gain-staged sample
\* above 1 comes back as 1, one below -1 as -1, one in range unchanged.
Clipping ==
    Returned =>
      /\ Frames(last.ret) = Frames(last.staged)
      /\ \A i \in 1..Frames(last.staged) : \A ch \in 1..last.staged.chans :
            LET s == last.staged.rows[i][ch]
                r == last.ret.rows[i][ch]
            IN /\ -Unit <= r /\ r <= Unit
               /\ s > Unit => r = Unit
               /\ s < -Unit => r = -Unit
               /\ (-Unit <= s /\ s <= Unit) => r = s

ClippingWitness ==
    /\ Returned
    /\ ~pre.bypass
    /\ pre.chain.filters # <<>>
    /\ \E s \in SamplesOf(last.staged) : s > Unit
    /\ \E s \in SamplesOf(last.staged) : s < -Unit

EnabledCount(bands) == Cardinality({i \in 1..Len(bands) : bands[i].enabled})

\* the index of the k-th enabled band of a list
KthEnabled(bands, k) ==
    CHOOSE i \in 1..Len(bands) :
        bands[i].enabled /\ Cardinality({j \in 1..i : bands[j].enabled}) = k

\* C5: the chain stores every band of the last list given to set_bands, in
\* order, and holds one filter per enabled stored band, in the bands' order.
BandsAndFilters ==
    /\ last.op = "set_bands" =>
          /\ Len(engine.chain.bands) = Len(last.bands)
          /\ \A i \in 1..Len(last.bands) :
                /\ engine.chain.bands[i].gain_db = last.bands[i].gain_db
                /\ engine.chain.bands[i].q = last.bands[i].q
                /\ engine.chain.bands[i].enabled = last.bands[i].enabled
    /\ Len(engine.chain.filters) = EnabledCount(engine.chain.bands)
    /\ \A k \in 1..Len(engine.chain.filters) :
          Coefficients(engine.chain.filters[k]) =
             Coefficients(from_eq_band(engine.chain.bands[KthEnabled(engine.chain.bands, k)],
                                       engine.sample_rate, engine.channels))

BandsAndFiltersWitness ==
    /\ last.op = "set_bands"
    /\ last.bands = <<BandA, BandOff, BandB>>
    /\ pre.chain.bands # <<>>
    /\ pre.chain.bands # engine.chain.bands

\* C6: right after set_bands every filter of the chain has all-zero delay
\* registers, also when the new band list equals the previous one.
SetBandsClearsState ==
    last.op = "set_bands" =>
       \A k \in 1..Len(engine.chain.filters) :
          engine.chain.filters[k].state = ZeroState(engine.channels)

SetBandsClearsStateWitness ==
    /\ last.op = "set_bands"
    /\ engine.chain.bands = pre.chain.bands
    /\ SomeRegisterSet(pre.chain.filters)

\* C7 as claimed: a successful process_block changes nothing of the engine but
\* the meter snapshot.
ProcessBlockOnlyMeter ==
    Returned => [engine EXCEPT !.meter = pre.meter] = pre

\* C7 as amended: a successful process_block changes nothing of the engine but
\* the meter snapshot and, with bypass off, the filters' delay registers.
ProcessBlockFrame ==
    Returned =>
      /\ [engine EXCEPT !.meter = pre.meter, !.chain.filters = pre.chain.filters] = pre
      /\ Len(engine.chain.filters) = Len(pre.chain.filters)
      /\ \A k \in 1..Len(pre.chain.filters) :
            Coefficients(engine.chain.filters[k]) = Coefficients(pre.chain.filters[k])
      /\ pre.bypass => Registers(engine.chain.filters) = Registers(pre.chain.filters)

ProcessBlockFrameWitness ==
    /\ Returned
    /\ ~pre.bypass
    /\ SomeRegisterSet(pre.chain.filters)
    /\ Registers(engine.chain.filters) # Registers(pre.chain.filters)

\* C8: with bypass on and 0 dB output gain, process_block returns a new block
\* of the input's shape holding the input samples clipped to [-1, 1].
BypassIsClippedInput ==
    (Returned /\ pre.bypass /\ pre.output_gain_db = 0) =>
      /\ last.ret.ndim = 2
      /\ last.ret.chans = last.block.chans
      /\ Frames(last.ret) = Frames(last.block)
      /\ \A i \in 1..Frames(last.block) : \A ch \in 1..last.block.chans :
            last.ret.rows[i][ch] = np_clip(last.block.rows[i][ch], -Unit, Unit)
      /\ last.ret_buf # "input"
      /\ last.inbuf = last.block

BypassIsClippedInputWitness ==
    /\ Returned
    /\ pre.bypass
    /\ pre.output_gain_db = 0
    /\ SomeRegisterSet(pre.chain.filters)
    /\ \E s \in SamplesOf(last.block) : s < -Unit
    /\ \E s \in SamplesOf(last.block) : -Unit <= s /\ s <= Unit

\* C10: process_block on a block that is not 2-D or has the wrong channel
\* count raises, and leaves the meter and every delay register as they were.
ShapeMismatchRejected ==
    (last.op = "process_block" /\ (last.block.ndim # 2 \/ last.block.chans # pre.channels)) =>
      /\ last.err
      /\ engine = pre

ShapeMismatchRejectedWitness ==
    /\ last.op = "process_block"
    /\ last.block.ndim = 2
    /\ last.block.chans # pre.channels
    /\ last.err
    /\ pre.meter # MeterSnapshot(0, 0)
    /\ SomeRegisterSet(pre.chain.filters)

\* C21: process_block leaves the caller's block as it was given, whatever the
\* bypass flag, the output gain and the number of filters, and returns another
\* buffer.
InputNeverModified ==
    Returned => last.inbuf = last.block /\ last.ret_buf # "input"

(***************************************************************************)
(* An EQEngine constructed with any configuration, then driven call after  *)
(* call.                                                                   *)
(***************************************************************************)
\* sample rates and channel counts given to the constructor
ConfigRates == {SampleRate, 21, -SampleRate}

ConfigChannels == {0, 1, 2}

BandLow == EQBand(10, -6, 100, TRUE)

ConfigBandLists == {<<>>, <<BandOff>>, <<BandA>>, <<BandLow, BandA, BandB>>}

ConfigBlocks ==
    BlocksOf(0, {<<>>}) \cup BlocksOf(1, MonoRows) \cup BlocksOf(2, {<<-2 * Unit, Unit>>})

InitConfig ==
    /\ FilterIdle
    /\ NoThreads
    /\ NoExperiment
    /\ engine = NoEngine
    /\ pre = NoEngine
    /\ last = NoCall
    /\ n_calls = 0

\* EQEngine(sample_rate=..., channels=...): __post_init__ makes the chain and
\* the linear gain, and checks nothing
Construct ==
    /\ engine = NoEngine
    /\ \E sample_rate \in ConfigRates, channels \in ConfigChannels :
          engine' = EQEngine_init(sample_rate, channels, DefaultOutputGainDb)
    /\ last' = [NoCall EXCEPT !.op = "construct"]
    /\ pre' = engine
    /\ n_calls' = n_calls + 1
    /\ UNCHANGED <<xp, fvars, cvars>>

ConfigSetBands ==
    /\ engine # NoEngine
    /\ n_calls < MaxCalls
    /\ \E bands \in ConfigBandLists :
          /\ engine' = EQEngine_set_bands(engine, bands)
          /\ last' = [NoCall EXCEPT !.op = "set_bands", !.bands = bands,
                                    !.err = BuildRaises(engine.chain,
                                                        ClippedBands(engine.chain, bands))]
    /\ pre' = engine
    /\ n_calls' = n_calls + 1
    /\ UNCHANGED <<xp, fvars, cvars>>

ConfigProcessBlock ==
    /\ engine # NoEngine
    /\ n_calls < MaxCalls
    /\ \E block \in ConfigBlocks :
          \E r \in {EQEngine_process_block(engine, block)} :
             /\ engine' = r.engine
             /\ last' = [op |-> "process_block", err |-> r.err, bands |-> <<>>,
                         block |-> block, inbuf |-> r.inbuf, staged |-> r.staged,
                         ret |-> r.ret, ret_buf |-> r.ret_buf]
    /\ pre' = engine
    /\ n_calls' = n_calls + 1
    /\ UNCHANGED <<xp, fvars, cvars>>

NextConfig == Construct \/ ConfigSetBands \/ ConfigProcessBlock

SpecConfig == InitConfig /\ [][NextConfig]_vars

\* C11: no engine exists whose channel count is below 1 or whose sample rate
\* is not positive: constructing one fails.
ValidConfiguration ==
    engine # NoEngine => engine.channels >= 1 /\ engine.sample_rate > 0

Clamped(frequency, sample_rate) ==
    IF frequency < MinFreq THEN MinFreq
    ELSE IF frequency > MaxFreq(sample_rate) THEN MaxFreq(sample_rate)
    ELSE frequency

\* what set_bands has stored and built, against the list it was given
StoredClamped ==
    /\ Len(engine.chain.bands) = Len(last.bands)
    /\ \A i \in 1..Len(last.bands) :
          LET given == last.bands[i]
              stored == engine.chain.bands[i]
          IN /\ MinFreq <= stored.frequency
             /\ stored.frequency <= MaxFreq(engine.sample_rate)
             /\ stored.frequency = Clamped(given.frequency, engine.sample_rate)
             /\ stored.gain_db = given.gain_db
             /\ stored.q = given.q
             /\ stored.enabled = given.enabled
    /\ ~last.err =>
          /\ Len(engine.chain.filters) = EnabledCount(last.bands)
          /\ \A k \in 1..Len(engine.chain.filters) :
                LET given == last.bands[KthEnabled(last.bands, k)]
                    at == EQBand(Clamped(given.frequency, engine.sample_rate),
                                 given.gain_db, given.q, TRUE)
                IN Coefficients(engine.chain.filters[k]) =
                     Coefficients(from_eq_band(at, engine.sample_rate, engine.channels))

\* C12 as stated: after any set_bands call on a chain with sample rate sr,
\* every stored band has 20 <= frequency <= sr/2.1: a frequency below 20 is
\* stored as 20, one above sr/2.1 as sr/2.1, one in the range unchanged; gain,
\* Q and enabled are stored unchanged; the filters use the clamped frequency.
FrequencyClampAnyRate == last.op = "set_bands" => StoredClamped

\* C12: the same, on a chain whose sample rate sr has 20 <= sr/2.1.
FrequencyClamp ==
    last.op = "set_bands" /\ MinFreq <= MaxFreq(engine.sample_rate) => StoredClamped

FrequencyClampWitness ==
    /\ last.op = "set_bands"
    /\ ~last.err
    /\ last.bands = <<BandLow, BandA, BandB>>
    /\ engine.sample_rate = SampleRate
    /\ Len(engine.chain.filters) = 3
    /\ engine.chain.bands[1].frequency = MinFreq
    /\ engine.chain.bands[3].frequency = MaxFreq(SampleRate)

\* the array y has the dimensions of the array x
SameShape(y, x) ==
    /\ y.ndim = x.ndim
    /\ y.chans = x.chans
    /\ Frames(y) = Frames(x)
    /\ \A i \in 1..Frames(y) : Len(y.rows[i]) = x.chans

\* C16: for every block process_block accepts, of any number of frames, what
\* process_block returns, what the chain's process returns for it and what each
\* of the chain's filters returns for it has the block's frames and channels.
ShapePreserved ==
    Returned =>
      /\ SameShape(last.ret, last.block)
      /\ SameShape(last.staged, last.block)
      /\ SameShape(EQFilterChain_process(pre.chain, last.block).output, last.block)
      /\ \A k \in 1..Len(pre.chain.filters) :
            /\ ~BiquadFilter_process(pre.chain.filters[k], last.block).err
            /\ SameShape(BiquadFilter_process(pre.chain.filters[k], last.block).y,
                         last.block)

\* a block of no frames has gone through filters that an earlier, longer block
\* had left registers in
ShapePreservedWitness ==
    /\ Returned
    /\ Frames(last.block) = 0
    /\ last.block.chans = 2
    /\ Len(pre.chain.filters) > 1
    /\ SomeRegisterSet(pre.chain.filters)

(***************************************************************************)
(* stream.py: the AudioBackend with its two threads.  The control thread   *)
(* (the GUI event loop) runs one backend method at a time; the audio       *)
(* thread runs _callback once per hardware period.  Each action is one     *)
(* step of a thread between two points where the other thread can run.     *)
(***************************************************************************)
\* most backend methods the control thread calls once there is an engine
MaxCtl == 1

\* most callbacks of the stream
MaxCallbacks == 2

\* most starts of the stream
MaxStarts == 2

\* queue.Queue(maxsize=32)
StatusMax == 32

\* _put_status: put_nowait and, when the queue is full, the oldest message is
\* taken out first
put_status(queue, message) ==
    IF Len(queue) < StatusMax THEN Append(queue, message)
    ELSE Append(Tail(queue), message)

\* the blocks the stream delivers: no frame, one frame
StreamBlocks ==
    {Block("f32", DefaultChannels, <<>>), Block("f32", DefaultChannels, <<<<Unit, -2 * Unit>>>>)}

\* the band lists and the gains the control surface sends
StreamBandLists == {<<>>, <<BandA, BandOff, BandB>>}

StreamGains == {0}

\* a fallback that hands the input block on
PassThrough(block) == block

\* outdata.fill(0)
Silence(block) ==
    Block("f32", DefaultChannels,
          [i \in 1..Frames(block) |-> [ch \in 1..DefaultChannels |-> 0]])

\* a _create_engine that leaves the new engine's bypass flag as constructed
create_engine_no_bypass(bk) ==
    With(EQEngine_init(bk.sample_rate, DefaultChannels, bk.output_gain_db),
         LAMBDA eng : IF bk.bands # <<>> THEN EQEngine_set_bands(eng, bk.bands) ELSE eng)

\* _create_engine
create_engine(bk) ==
    With([EQEngine_init(bk.sample_rate, DefaultChannels, bk.output_gain_db)
            EXCEPT !.bypass = bk.bypass],
         LAMBDA eng : IF bk.bands # <<>> THEN EQEngine_set_bands(eng, bk.bands) ELSE eng)

InitConc ==
    /\ FilterIdle
    /\ NoThreads
    /\ NoExperiment
    /\ engine = NoEngine
    /\ pre = NoEngine
    /\ last = NoCall
    /\ n_calls = 0

\* the engine object the running callback holds, and a store into it
CbEngine == engine

CbStore(eng) == engine' = eng

\* the control thread returns from a backend method
Return(ret) == [ControlIdle EXCEPT !.ret = ret, !.n = ctl.n]

\* the control thread enters a backend method
Enter(pc) ==
    [ctl EXCEPT !.pc = pc,
                !.n = IF engine # NoEngine THEN ctl.n + 1 ELSE ctl.n]

\* MainWindow.start_audio: configure, then start, of a stream that is not
\* running
StartAudio ==
    /\ ctl.pc = "idle"
    /\ backend.stream = "none"
    /\ backend.starts < MaxStarts
    /\ \E eng \in {create_engine(backend)} :
          /\ engine' = eng
          /\ lists' = Append(lists, eng.chain.bands)
    /\ list_id' = list_id + 1
    /\ backend' = [backend EXCEPT !.devices = TRUE, !.stream = "running",
                                  !.opened = <<backend.sample_rate, backend.block_size>>,
                                  !.starts = backend.starts + 1]
    /\ UNCHANGED <<xp, fvars, pre, last, n_calls, lock, ctl, cb, outdata, published>>

\* set_bands up to the with statement: the copies
CallSetBands ==
    /\ ctl.pc = "idle"
    /\ ctl.n < MaxCtl
    /\ \E bands \in StreamBandLists : ctl' = [Enter("sb_wait") EXCEPT !.bands = bands]
    /\ UNCHANGED <<xp, fvars, evars, backend, lock, list_id, lists, cb, outdata, published>>

\* set_bypass up to the with statement
CallSetBypass ==
    /\ ctl.pc = "idle"
    /\ ctl.n < MaxCtl
    /\ \E bypass \in BOOLEAN :
          /\ ctl' = [Enter("bp_wait") EXCEPT !.bypass = bypass]
          /\ backend' = [backend EXCEPT !.bypass = bypass]
    /\ UNCHANGED <<xp, fvars, evars, lock, list_id, lists, cb, outdata, published>>

\* set_output_gain up to the with statement
CallSetOutputGain ==
    /\ ctl.pc = "idle"
    /\ ctl.n < MaxCtl
    /\ \E gain_db \in StreamGains :
          /\ ctl' = [Enter("og_wait") EXCEPT !.gain_db = gain_db]
          /\ backend' = [backend EXCEPT !.output_gain_db = gain_db]
    /\ UNCHANGED <<xp, fvars, evars, lock, list_id, lists, cb, outdata, published>>

\* get_meter up to the with statement
CallGetMeter ==
    /\ ctl.pc = "idle"
    /\ ctl.n < MaxCtl
    /\ ctl' = Enter("gm_wait")
    /\ UNCHANGED <<xp, fvars, evars, backend, lock, list_id, lists, cb, outdata, published>>

\* where the control thread is once it holds the lock
Held(pc) ==
    CASE pc = "sb_wait" -> "sb_store"
      [] pc = "bp_wait" -> "bp_store"
      [] pc = "og_wait" -> "og_store"
      [] pc = "gm_wait" -> "gm_read"

\* with self._lock, on the control thread
ControlAcquire ==
    /\ ctl.pc \in {"sb_wait", "bp_wait", "og_wait", "gm_wait"}
    /\ lock = "free"
    /\ lock' = "control"
    /\ ctl' = [ctl EXCEPT !.pc = Held(ctl.pc)]
    /\ UNCHANGED <<xp, fvars, evars, backend, list_id, lists, cb, outdata, published>>

\* set_bands under the lock: self._bands = copies and, with an engine, the
\* first assignment of the chain's set_bands
SetBandsStore ==
    /\ ctl.pc = "sb_store"
    /\ backend' = [backend EXCEPT !.bands = ctl.bands]
    /\ IF engine = NoEngine
       THEN /\ lock' = "free"
            /\ ctl' = Return(ctl.ret)
            /\ UNCHANGED engine
       ELSE /\ engine' = [engine EXCEPT !.chain.bands = ClippedBands(engine.chain, ctl.bands)]
            /\ ctl' = [ctl EXCEPT !.pc = "sb_build"]
            /\ UNCHANGED lock
    /\ UNCHANGED <<xp, fvars, pre, last, n_calls, list_id, lists, cb, outdata, published>>

\* the second assignment of the chain's set_bands: self._filters refers to a
\* new list object; the lock is released
SetBandsBuild ==
    /\ ctl.pc = "sb_build"
    /\ engine' = [engine EXCEPT !.chain.filters = BuildFilters(engine.chain, engine.chain.bands)]
    /\ list_id' = list_id + 1
    /\ lists' = Append(lists, engine.chain.bands)
    /\ lock' = "free"
    /\ ctl' = Return(ctl.ret)
    /\ UNCHANGED <<xp, fvars, pre, last, n_calls, backend, cb, outdata, published>>

\* set_bypass under the lock
SetBypassStore ==
    /\ ctl.pc = "bp_store"
    /\ engine' = IF engine = NoEngine THEN engine ELSE [engine EXCEPT !.bypass = ctl.bypass]
    /\ lock' = "free"
    /\ ctl' = Return(ctl.ret)
    /\ UNCHANGED <<xp, fvars, pre, last, n_calls, backend, list_id, lists, cb, outdata, published>>

\* set_output_gain under the lock
SetOutputGainStore ==
    /\ ctl.pc = "og_store"
    /\ engine' = IF engine = NoEngine THEN engine
                 ELSE EQEngine_set_output_gain(engine, ctl.gain_db)
    /\ lock' = "free"
    /\ ctl' = Return(ctl.ret)
    /\ UNCHANGED <<xp, fvars, pre, last, n_calls, backend, list_id, lists, cb, outdata, published>>

\* get_meter under the lock
GetMeterRead ==
    /\ ctl.pc = "gm_read"
    /\ ctl' = Return(IF engine = NoEngine THEN MeterSnapshot(0, 0) ELSE engine.meter)
    /\ lock' = "free"
    /\ UNCHANGED <<xp, fvars, evars, backend, list_id, lists, cb, outdata, published>>

\* the audio thread returns from _callback
CallbackReturn(raised) ==
    [CallbackIdle EXCEPT !.indata = cb.indata, !.raised = raised, !.calls = cb.calls,
                         !.status0 = cb.status0, !.n = cb.n]

\* _callback up to the with statement: block = np.array(indata, copy=True)
CallbackBegin ==
    /\ backend.stream = "running"
    /\ cb.pc = "idle"
    /\ cb.n < MaxCallbacks
    /\ \E indata \in StreamBlocks :
          cb' = [CallbackIdle EXCEPT !.pc = "cb_wait", !.indata = indata,
                                     !.block = indata, !.status0 = backend.status,
                                     !.n = cb.n + 1]
    /\ UNCHANGED <<xp, fvars, evars, backend, lock, list_id, lists, ctl, outdata, published>>

\* with self._lock, on the audio thread
CallbackAcquire ==
    /\ cb.pc = "cb_wait"
    /\ lock = "free"
    /\ lock' = "audio"
    /\ cb' = [cb EXCEPT !.pc = "cb_engine"]
    /\ UNCHANGED <<xp, fvars, evars, backend, list_id, lists, ctl, outdata, published>>

\* engine = self._engine, the lock is released; without an engine the
\* callback writes silence
CallbackEngine ==
    /\ cb.pc = "cb_engine"
    /\ lock' = "free"
    /\ IF engine = NoEngine
       THEN /\ outdata' = Silence(cb.block)
            /\ cb' = CallbackReturn(FALSE)
       ELSE /\ cb' = [cb EXCEPT !.pc = "pb_enter"]
            /\ UNCHANGED outdata
    /\ UNCHANGED <<xp, fvars, evars, backend, list_id, lists, ctl, published>>

\* process_block up to the call of the chain: the validation, the input
\* level, the bypass flag
PbEnter ==
    /\ cb.pc = "pb_enter"
    /\ IF ~ShapeOk(CbEngine, cb.block)
       THEN /\ outdata' = Silence(cb.block)
            /\ backend' = [backend EXCEPT !.status = put_status(backend.status, "error")]
            /\ cb' = [CallbackReturn(TRUE) EXCEPT !.calls = 1]
       ELSE /\ cb' = [cb EXCEPT !.input_level = rms(cb.block),
                                !.list0 = list_id,
                                !.processed = cb.block,
                                !.buf = IF CbEngine.bypass THEN "copy" ELSE "input",
                                !.calls = 1,
                                !.pc = IF CbEngine.bypass THEN "pb_gain" ELSE "ch_check"]
            /\ UNCHANGED <<outdata, backend>>
    /\ UNCHANGED <<xp, fvars, evars, lock, list_id, lists, ctl, published>>

\* chain.process: if not self._filters
ChainCheck ==
    /\ cb.pc = "ch_check"
    /\ cb' = [cb EXCEPT !.pc = IF CbEngine.chain.filters = <<>> THEN "pb_gain" ELSE "ch_iter"]
    /\ UNCHANGED <<xp, fvars, evars, backend, lock, list_id, lists, ctl, outdata, published>>

\* chain.process: for filt in self._filters, the loop takes the list object
\* self._filters refers to now
ChainIter ==
    /\ cb.pc = "ch_iter"
    /\ cb' = [cb EXCEPT !.filters = CbEngine.chain.filters,
                        !.list = list_id,
                        !.k = 1,
                        !.pc = IF CbEngine.chain.filters = <<>> THEN "pb_gain" ELSE "ch_filt"]
    /\ UNCHANGED <<xp, fvars, evars, backend, lock, list_id, lists, ctl, outdata, published>>

\* a loop that indexes self._filters anew at every turn
LoopFilterIndexed(k) ==
    IF k <= Len(CbEngine.chain.filters)
    THEN [filt |-> CbEngine.chain.filters[k], list |-> list_id]
    ELSE [filt |-> cb.filters[k], list |-> cb.list]

\* the filter object the loop takes at its k-th turn, and the list object it
\* belongs to
LoopFilter(k) == [filt |-> cb.filters[k], list |-> cb.list]

\* one turn of the loop: output = filt.process(output); the filter object
\* keeps its new registers, in the chain as long as the chain still refers to
\* the list
ChainFilter ==
    /\ cb.pc = "ch_filt"
    /\ \E lf \in {LoopFilter(cb.k)} :
       \E r \in {BiquadFilter_process(lf.filt, cb.processed)} :
          IF r.err
          THEN /\ outdata' = Silence(cb.block)
               /\ backend' = [backend EXCEPT !.status = put_status(backend.status, "error")]
               /\ cb' = CallbackReturn(TRUE)
               /\ UNCHANGED engine
          ELSE /\ cb' = [cb EXCEPT !.processed = r.y,
                                   !.buf = "y",
                                   !.filters = IF lf.list = cb.list
                                               THEN [cb.filters EXCEPT ![cb.k] = r.filt]
                                               ELSE cb.filters,
                                   !.applied = Append(cb.applied,
                                                      [list |-> lf.list, k |-> cb.k,
                                                       coef |-> Coefficients(lf.filt)]),
                                   !.k = cb.k + 1,
                                   !.pc = IF cb.k + 1 > Len(cb.filters)
                                          THEN "pb_gain" ELSE "ch_filt"]
               /\ IF lf.list = list_id
                  THEN CbStore([CbEngine EXCEPT !.chain.filters[cb.k] = r.filt])
                  ELSE UNCHANGED engine
               /\ UNCHANGED <<outdata, backend>>
    /\ UNCHANGED <<xp, fvars, pre, last, n_calls, lock, list_id, lists, ctl, published>>

\* the rest of process_block and of _callback: the gain stage, the output
\* level, the meter, the clip, outdata[:] = processed
PbFinish ==
    /\ cb.pc = "pb_gain"
    /\ \E staged \in {GainStage(cb.processed, CbEngine.output_gain)} :
          /\ CbStore(StoreMeter(CbEngine, cb.input_level, rms(staged)))
          /\ outdata' = Clip(staged)
          /\ published' = Append(published, [block |-> cb.indata, staged |-> staged])
    /\ cb' = CallbackReturn(FALSE)
    /\ UNCHANGED <<xp, fvars, pre, last, n_calls, backend, lock, list_id, lists, ctl>>

NextConc ==
    \/ StartAudio
    \/ CallSetBands \/ CallSetBypass \/ CallSetOutputGain \/ CallGetMeter
    \/ ControlAcquire
    \/ SetBandsStore \/ SetBandsBuild \/ SetBypassStore \/ SetOutputGainStore \/ GetMeterRead
    \/ CallbackBegin \/ CallbackAcquire \/ CallbackEngine
    \/ PbEnter \/ ChainCheck \/ ChainIter \/ ChainFilter \/ PbFinish

SpecConc == InitConc /\ [][NextConc]_vars

\* the audio thread is inside process_block
InProcessBlock == cb.pc \in {"ch_check", "ch_iter", "ch_filt", "pb_gain"}

\* the filters built from the stored bands of list object id, as the loop
\* applies them
CompleteList(id) ==
    [k \in 1..EnabledCount(lists[id]) |->
       [list |-> id, k |-> k,
        coef |-> Coefficients(from_eq_band(lists[id][KthEnabled(lists[id], k)],
                                           SampleRate, DefaultChannels))]]

IsPrefix(s, t) == Len(s) <= Len(t) /\ s = SubSeq(t, 1, Len(s))

\* C3: whatever set_bands does on the control thread while a callback runs,
\* the filters a process_block call passes its block through are those of one
\* list object that was in force during the call, in order and, once the chain
\* has returned, all of them: never filters of two lists, never part of a list.
OneCompleteList ==
    InProcessBlock /\ cb.buf # "copy" =>
      \E id \in cb.list0..list_id :
         /\ IsPrefix(cb.applied, CompleteList(id))
         /\ cb.pc = "pb_gain" => cb.applied = CompleteList(id)

\* set_bands has replaced a list of two filters while the loop was between
\* its first and its second filter
OneCompleteListWitness ==
    /\ cb.pc = "ch_filt"
    /\ cb.k = 2
    /\ Len(cb.filters) >= 2
    /\ list_id > cb.list
    /\ ctl.pc = "idle"

\* C4: the callback never waits for the backend lock while the control thread
\* holds it.
AudioNeverWaits == ~(cb.pc = "cb_wait" /\ lock = "control")

Pair(p) == MeterSnapshot(rms(p.block), rms(p.staged))

Pairs == {Pair(published[i]) : i \in 1..Len(published)}

\* C9: the engine's meter, and every snapshot get_meter has returned, also one
\* read while a block is being processed, is (0, 0) or the pair (input RMS,
\* RMS of the gain-staged output) of one finished process_block call; between
\* two calls the meter is the pair of the last finished call; a zero-frame
\* block gives (0, 0) and does not raise.
MeterIsOnePair ==
    /\ ctl.ret \in {MeterSnapshot(0, 0)} \cup Pairs
    /\ engine # NoEngine =>
         engine.meter = IF published = <<>> THEN MeterSnapshot(0, 0)
                        ELSE Pair(published[Len(published)])
    /\ published # <<>> /\ Frames(published[Len(published)].block) = 0 =>
         engine.meter = MeterSnapshot(0, 0)
    /\ Frames(cb.indata) = 0 => ~cb.raised

MeterIsOnePairWitness ==
    /\ ctl.pc = "gm_read"
    /\ InProcessBlock
    /\ published # <<>>
    /\ engine.meter # MeterSnapshot(0, 0)

(***************************************************************************)
(* The stream stopped and started again.                                   *)
(***************************************************************************)
\* AudioBackend.stop: the stream is stopped and closed, which waits for the
\* callback in progress
StopAudio ==
    /\ ctl.pc = "idle"
    /\ backend.stream = "running"
    /\ cb.pc = "idle"
    /\ backend' = [backend EXCEPT !.stream = "none", !.opened = <<>>]
    /\ UNCHANGED <<xp, fvars, evars, lock, list_id, lists, ctl, cb, outdata, published>>

\* AudioBackend.start on a backend that was configured before: an engine is
\* made only if there is none
Start ==
    /\ ctl.pc = "idle"
    /\ backend.stream = "none"
    /\ backend.starts > 0
    /\ backend.starts < MaxStarts
    /\ IF engine = NoEngine
       THEN \E eng \in {create_engine(backend)} :
               /\ engine' = eng
               /\ lists' = Append(lists, eng.chain.bands)
               /\ list_id' = list_id + 1
       ELSE UNCHANGED <<engine, lists, list_id>>
    /\ backend' = [backend EXCEPT !.stream = "running",
                                  !.opened = <<backend.sample_rate, backend.block_size>>,
                                  !.starts = backend.starts + 1]
    /\ UNCHANGED <<xp, fvars, pre, last, n_calls, lock, ctl, cb, outdata, published>>

NextLife == NextConc \/ StopAudio \/ Start

SpecLife == InitConc /\ [][NextLife]_vars

\* C14: once the stream has been stopped the backend holds no engine.
EngineTornDown ==
    backend.stream = "none" /\ backend.starts > 0 => engine = NoEngine

(***************************************************************************)
(* _callback as a function: called with any block and status flag, with    *)
(* or without an engine.                                                   *)
(***************************************************************************)
\* the blocks _callback is handed: those of the stream, and one the engine
\* rejects
AnyBlocks == StreamBlocks \cup {Block("f32", 1, <<<<Unit>>>>)}

\* _callback up to the with statement: the status message, the copy of indata
CallbackBeginAny ==
    /\ cb.pc = "idle"
    /\ cb.n < MaxCallbacks
    /\ \E indata \in AnyBlocks, status \in BOOLEAN :
       \E queue \in {IF status THEN put_status(backend.status, "status")
                     ELSE backend.status} :
          /\ backend' = [backend EXCEPT !.status = queue]
          /\ cb' = [CallbackIdle EXCEPT !.pc = "cb_wait", !.indata = indata,
                                        !.block = indata, !.status0 = queue,
                                        !.n = cb.n + 1]
    /\ UNCHANGED <<xp, fvars, evars, lock, list_id, lists, ctl, outdata, published>>

NextFail ==
    \/ StartAudio
    \/ CallSetBands \/ ControlAcquire \/ SetBandsStore \/ SetBandsBuild
    \/ CallbackBeginAny \/ CallbackAcquire \/ CallbackEngine
    \/ PbEnter \/ ChainCheck \/ ChainIter \/ ChainFilter \/ PbFinish

SpecFail == InitConc /\ [][NextFail]_vars

AllZero(block) ==
    \A i \in 1..Frames(block) : \A ch \in 1..Len(block.rows[i]) : block.rows[i][ch] = 0

\* C15: when process_block fails, the callback has called it once, writes an
\* all-zero output block, enqueues one status message and returns; without an
\* engine it writes silence and calls nothing; any other callback, also one
\* after a failure, hands out the clipped result of its process_block call.
FailurePropagates ==
    cb.pc = "idle" /\ cb.n > 0 =>
      /\ Frames(outdata) = Frames(cb.indata)
      /\ cb.raised =>
           /\ cb.calls = 1
           /\ AllZero(outdata)
           /\ backend.status = Append(cb.status0, "error")
      /\ cb.calls = 0 =>
           /\ ~cb.raised
           /\ AllZero(outdata)
           /\ backend.status = cb.status0
      /\ cb.calls = 1 /\ ~cb.raised =>
           /\ published # <<>>
           /\ published[Len(published)].block = cb.indata
           /\ outdata = Clip(published[Len(published)].staged)
           /\ backend.status = cb.status0

\* a callback has processed a block through the filters after an earlier one
\* had failed
FailurePropagatesWitness ==
    /\ cb.pc = "idle"
    /\ cb.n = 2
    /\ cb.calls = 1
    /\ ~cb.raised
    /\ Frames(cb.indata) > 0
    /\ engine.chain.filters # <<>>
    /\ \E i \in 1..Len(backend.status) : backend.status[i] = "error"
    /\ ~AllZero(outdata)

(***************************************************************************)
(* The Start button pressed again while the stream runs: start_audio calls *)
(* configure, which makes a new engine step by step without the lock, and  *)
(* then start, which returns at once.  The engine is replaced while no     *)
(* callback is inside process_block: a callback that is finishes on the    *)
(* engine it holds, which the backend refers to no more.                   *)
(***************************************************************************)
\* values of the window's sample rate and block size boxes
ConfigureRates == {SampleRate, 44100}

ConfigureBlockSizes == {DefaultBlockSize, 512}

\* configure, and _create_engine up to the assignment of self._engine
ConfigureAssign ==
    /\ ctl.pc = "idle"
    /\ backend.stream = "running"
    /\ backend.starts < MaxStarts
    /\ cb.pc \in {"idle", "cb_wait", "cb_engine"}
    /\ \E sample_rate \in ConfigureRates, block_size \in ConfigureBlockSizes :
          /\ backend' = [backend EXCEPT !.sample_rate = sample_rate,
                                        !.block_size = block_size,
                                        !.devices = TRUE,
                                        !.starts = backend.starts + 1]
          /\ engine' = EQEngine_init(sample_rate, DefaultChannels, backend.output_gain_db)
    /\ list_id' = list_id + 1
    /\ lists' = Append(lists, <<>>)
    /\ ctl' = [ctl EXCEPT !.pc = "ce_bypass"]
    /\ UNCHANGED <<xp, fvars, pre, last, n_calls, lock, cb, outdata, published>>

\* self._engine.bypass = self._bypass
ConfigureBypass ==
    /\ ctl.pc = "ce_bypass"
    /\ engine' = [engine EXCEPT !.bypass = backend.bypass]
    /\ ctl' = [ctl EXCEPT !.pc = "ce_bands"]
    /\ UNCHANGED <<xp, fvars, pre, last, n_calls, backend, lock, list_id, lists, cb,
                   outdata, published>>

\* if self._bands: self._engine.set_bands(self._bands); configure returns and
\* start finds the stream
ConfigureBands ==
    /\ ctl.pc = "ce_bands"
    /\ IF backend.bands # <<>>
       THEN /\ engine' = EQEngine_set_bands(engine, backend.bands)
            /\ list_id' = list_id + 1
            /\ lists' = Append(lists, ClippedBands(engine.chain, backend.bands))
       ELSE UNCHANGED <<engine, list_id, lists>>
    /\ ctl' = Return(ctl.ret)
    /\ UNCHANGED <<xp, fvars, pre, last, n_calls, backend, lock, cb, outdata, published>>

NextRace == NextConc \/ ConfigureAssign \/ ConfigureBypass \/ ConfigureBands

SpecRace == InitConc /\ [][NextRace]_vars

\* C22: the engine a callback is about to process its block with, obtained
\* while configure is making it, has the backend's bypass flag and bands.
NewEngineCarriesSettings ==
    cb.pc = "pb_enter" /\ ctl.pc \in {"ce_bypass", "ce_bands"} =>
      /\ engine.bypass = backend.bypass
      /\ engine.chain.bands = ClippedBands(engine.chain, backend.bands)

\* C23: while the stream runs and no call is in progress, the engine has the
\* sample rate the stream was opened with, and the backend's sample_rate and
\* block_size are those of the stream.
StreamAndEngineAgree ==
    backend.stream = "running" /\ ctl.pc = "idle" =>
      /\ engine.sample_rate = backend.opened[1]
      /\ backend.sample_rate = backend.opened[1]
      /\ backend.block_size = backend.opened[2]

(***************************************************************************)
(* The control thread alone: the backend's methods called one after the    *)
(* other, each from entry to return.  xp.live says that a start has        *)
(* succeeded and no stop or close has followed it.                         *)
(***************************************************************************)
InitControl ==
    /\ FilterIdle
    /\ NoThreads
    /\ engine = NoEngine
    /\ pre = NoEngine
    /\ last = NoCall
    /\ n_calls = 0
    /\ xp = [pc |-> "control", op |-> "init", err |-> FALSE, live |-> FALSE, n |-> 0]

\* the bookkeeping of a call that has returned (err: it raised)
Called(op, err, live) ==
    xp' = [xp EXCEPT !.op = op, !.err = err, !.live = live, !.n = xp.n + 1]

\* configure(sample_rate, block_size, input_device, output_device)
CtlConfigure ==
    /\ xp.pc = "control"
    /\ xp.n < MaxCalls
    /\ \E sample_rate \in ConfigureRates, block_size \in ConfigureBlockSizes :
          /\ backend' = [backend EXCEPT !.sample_rate = sample_rate,
                                        !.block_size = block_size,
                                        !.devices = TRUE]
          /\ engine' = create_engine(backend')
    /\ Called("configure", FALSE, xp.live)
    /\ UNCHANGED <<fvars, pre, last, n_calls, lock, list_id, lists, ctl, cb, outdata, published>>

\* what sd.Stream(...) and Stream.start() do: both succeed, the constructor
\* raises, start raises
StreamOutcomes == {"running", "none", "unstarted"}

\* start()
CtlStart ==
    /\ xp.pc = "control"
    /\ xp.n < MaxCalls
    /\ IF backend.stream # "none"
       THEN /\ Called("start", FALSE, xp.live)
            /\ UNCHANGED <<backend, engine>>
       ELSE IF ~backend.devices
       THEN /\ Called("start", TRUE, xp.live)
            /\ UNCHANGED <<backend, engine>>
       ELSE /\ engine' = IF engine = NoEngine THEN create_engine(backend) ELSE engine
            /\ \E outcome \in StreamOutcomes :
                  /\ backend' = [backend EXCEPT
                                   !.stream = outcome,
                                   !.opened = IF outcome = "none" THEN <<>>
                                              ELSE <<backend.sample_rate, backend.block_size>>]
                  /\ Called("start", outcome # "running", outcome = "running")
    /\ UNCHANGED <<fvars, pre, last, n_calls, lock, list_id, lists, ctl, cb, outdata, published>>

\* stop(), and close(), which calls it
CtlStop ==
    /\ xp.pc = "control"
    /\ xp.n < MaxCalls
    /\ backend' = [backend EXCEPT !.stream = "none", !.opened = <<>>]
    /\ \E op \in {"stop", "close"} : Called(op, FALSE, FALSE)
    /\ UNCHANGED <<fvars, evars, lock, list_id, lists, ctl, cb, outdata, published>>

\* set_bands(bands)
CtlSetBands ==
    /\ xp.pc = "control"
    /\ xp.n < MaxCalls
    /\ \E bands \in StreamBandLists :
          /\ backend' = [backend EXCEPT !.bands = bands]
          /\ engine' = IF engine = NoEngine THEN engine
                       ELSE EQEngine_set_bands(engine, bands)
    /\ Called("set_bands", FALSE, xp.live)
    /\ UNCHANGED <<fvars, pre, last, n_calls, lock, list_id, lists, ctl, cb, outdata, published>>

\* set_bypass(bypass)
CtlSetBypass ==
    /\ xp.pc = "control"
    /\ xp.n < MaxCalls
    /\ \E bypass \in BOOLEAN :
          /\ backend' = [backend EXCEPT !.bypass = bypass]
          /\ engine' = IF engine = NoEngine THEN engine
                       ELSE [engine EXCEPT !.bypass = bypass]
    /\ Called("set_bypass", FALSE, xp.live)
    /\ UNCHANGED <<fvars, pre, last, n_calls, lock, list_id, lists, ctl, cb, outdata, published>>

\* set_output_gain(gain_db)
CtlSetOutputGain ==
    /\ xp.pc = "control"
    /\ xp.n < MaxCalls
    /\ \E gain_db \in StreamGains :
          /\ backend' = [backend EXCEPT !.output_gain_db = gain_db]
          /\ engine' = IF engine = NoEngine THEN engine
                       ELSE EQEngine_set_output_gain(engine, gain_db)
    /\ Called("set_output_gain", FALSE, xp.live)
    /\ UNCHANGED <<fvars, pre, last, n_calls, lock, list_id, lists, ctl, cb, outdata, published>>

NextControl ==
    \/ CtlConfigure \/ CtlStart \/ CtlStop
    \/ CtlSetBands \/ CtlSetBypass \/ CtlSetOutputGain

SpecControl == InitControl /\ [][NextControl]_vars

\* C24: the backend holds a stream exactly when a start has succeeded and no
\* stop or close has followed it.
StreamIffStarted ==
    xp.pc = "control" => ((backend.stream # "none") <=> xp.live)

\* C25: after every call the engine, if there is one, has the bypass flag and
\* the output gain last set on the backend, and its stored bands are the
\* clamped copies of the backend's band list.
SettingsSurvive ==
    xp.pc = "control" /\ engine # NoEngine =>
      /\ engine.bypass = backend.bypass
      /\ engine.output_gain_db = backend.output_gain_db
      /\ engine.output_gain = LinearGain(backend.output_gain_db)
      /\ engine.chain.bands = ClippedBands(engine.chain, backend.bands)
      /\ engine.chain.filters = BuildFilters(engine.chain, engine.chain.bands)

\* configure has made a new engine for another sample rate after bypass, a
\* gain and bands had been set
SettingsSurviveWitness ==
    /\ xp.pc = "control"
    /\ xp.op = "configure"
    /\ engine.sample_rate = 44100
    /\ engine.bypass
    /\ engine.output_gain_db = 0
    /\ engine.chain.bands # <<>>

(***************************************************************************)
(* Bypass and the delay registers.  A caller filters blocks with an engine *)
(* that has one band, switches bypass on, passes blocks through, switches  *)
(* bypass off and filters again.  xp keeps the history the engine does not *)
(* keep: kept, the registers of the filters when bypass was switched on;   *)
(* held, bypass has been switched on and no block has been filtered since; *)
(* bypassed, the blocks passed through since then; resumed, the last call  *)
(* filtered the first block after the bypass, block, and returned staged.  *)
(***************************************************************************)
\* the calls of one run: one more than MaxCalls, the band list being set
\* before the run
BypassCalls == MaxCalls + 1

InitBypass ==
    /\ FilterIdle
    /\ NoThreads
    /\ engine = EQEngine_set_bands(
                   EQEngine_init(SampleRate, DefaultChannels, DefaultOutputGainDb),
                   <<BandA>>)
    /\ pre = engine
    /\ last = NoCall
    /\ n_calls = 0
    /\ xp = [pc |-> "bypass", kept |-> <<>>, held |-> FALSE, bypassed |-> 0,
             resumed |-> FALSE, block |-> NoBlock, staged |-> NoBlock, n |-> 0]

\* engine.bypass = bypass
BypassSet ==
    /\ xp.pc = "bypass"
    /\ xp.n < BypassCalls
    /\ \E bypass \in BOOLEAN :
          /\ engine' = [engine EXCEPT !.bypass = bypass]
          /\ xp' = IF bypass /\ ~engine.bypass
                   THEN [xp EXCEPT !.kept = Registers(engine.chain.filters),
                                   !.held = TRUE, !.bypassed = 0,
                                   !.resumed = FALSE, !.n = xp.n + 1]
                   ELSE [xp EXCEPT !.resumed = FALSE, !.n = xp.n + 1]
    /\ last' = [NoCall EXCEPT !.op = "set_bypass"]
    /\ pre' = engine
    /\ UNCHANGED <<n_calls, fvars, cvars>>

\* engine.process_block(block) with a stereo block
BypassProcess ==
    /\ xp.pc = "bypass"
    /\ xp.n < BypassCalls
    /\ \E block \in BlocksOf(2, StereoRows) :
          \E r \in {EQEngine_process_block(engine, block)} :
             /\ engine' = r.engine
             /\ last' = [op |-> "process_block", err |-> r.err, bands |-> <<>>,
                         block |-> block, inbuf |-> r.inbuf, staged |-> r.staged,
                         ret |-> r.ret, ret_buf |-> r.ret_buf]
             /\ xp' = IF engine.bypass
                      THEN [xp EXCEPT !.bypassed = xp.bypassed + 1,
                                      !.resumed = FALSE, !.n = xp.n + 1]
                      ELSE [xp EXCEPT !.held = FALSE, !.resumed = xp.held,
                                      !.block = block, !.staged = r.staged,
                                      !.n = xp.n + 1]
    /\ pre' = engine
    /\ UNCHANGED <<n_calls, fvars, cvars>>

NextBypass == BypassSet \/ BypassProcess

SpecBypass == InitBypass /\ [][NextBypass]_vars

\* the chain with the delay registers regs in its filters
WithRegisters(chain, regs) ==
    [chain EXCEPT !.filters =
       [k \in 1..Len(chain.filters) |-> [chain.filters[k] EXCEPT !.state = regs[k]]]]

\* what process_block stages for block when the filters of chain start from
\* the delay registers regs
StagedFrom(chain, regs, block, output_gain) ==
    GainStage(EQFilterChain_process(WithRegisters(chain, regs), block).output,
              output_gain)

\* C26: from the moment bypass is switched on until the first block is filtered
\* again, whatever blocks process_block passes through and however often the
\* flag is set, the delay registers of every filter stay as they were when
\* bypass was switched on; and the first block after bypass is switched off is
\* filtered starting from exactly those registers.
BypassKeepsRegisters ==
    xp.pc = "bypass" =>
      /\ xp.held => Registers(engine.chain.filters) = xp.kept
      /\ xp.resumed =>
            xp.staged = StagedFrom(pre.chain, xp.kept, xp.block, pre.output_gain)

\* a block is filtered after blocks were passed through under bypass, the
\* registers kept are not the zero state, and the block comes out differently
\* from what a chain starting from the zero state gives
BypassKeepsRegistersWitness ==
    /\ xp.pc = "bypass"
    /\ xp.resumed
    /\ xp.bypassed > 0
    /\ xp.kept # Registers(BuildFilters(pre.chain, pre.chain.bands))
    /\ xp.staged # StagedFrom(pre.chain,
                              Registers(BuildFilters(pre.chain, pre.chain.bands)),
                              xp.block, pre.output_gain)

(***************************************************************************)
(* Copy-on-handoff.  The caller of AudioBackend.set_bands (the window)     *)
(* keeps its own list of EQBand objects and changes it at will.  xp.bands  *)
(* is the heap of EQBand objects and xp.lists the heap of list objects (a  *)
(* list is a sequence of references to EQBand objects); xp.caller and      *)
(* xp.backend are the list objects the caller and AudioBackend._bands      *)
(* refer to; xp.chain is the engine's chain, whose stored bands are the    *)
(* new objects EQBand.clip returns, which nothing else refers to.          *)
(***************************************************************************)
\* most set_bands calls, most changes made by the caller, longest list
MaxPushes == 2

MaxEdits == 4

MaxBands == 2

\* the values of the bands of list object id
Deref(h, id) == [i \in 1..Len(h.lists[id]) |-> h.bands[h.lists[id][i]]]

\* a handoff that stores the caller's list object itself
ShareBands(h, id) == [bands |-> h.bands, lists |-> h.lists, list |-> id]

\* copies = [EQBand(b.frequency, b.gain_db, b.q, b.enabled) for b in bands]:
\* a new list object of new EQBand objects
CopyBands(h, id) ==
    [bands |-> h.bands \o Deref(h, id),
     lists |-> Append(h.lists, [i \in 1..Len(h.lists[id]) |-> Len(h.bands) + i]),
     list |-> Len(h.lists) + 1]

InitHandoff ==
    /\ FilterIdle
    /\ NoThreads
    /\ engine = NoEngine
    /\ pre = NoEngine
    /\ last = NoCall
    /\ n_calls = 0
    /\ xp = [pc |-> "handoff", bands |-> <<>>, lists |-> <<<<>>, <<>>>>,
             caller |-> 1, backend |-> 2,
             chain |-> EQFilterChain_init(SampleRate, DefaultChannels),
             given |-> [backend |-> <<>>, chain |-> <<>>, filters |-> <<>>],
             pushes |-> 0, edits |-> 0]

\* AudioBackend.set_bands(self.bands) with an engine: the copies, then the
\* chain's set_bands on the copies
PushBands ==
    /\ xp.pc = "handoff"
    /\ xp.pushes < MaxPushes
    /\ \E c \in {CopyBands(xp, xp.caller)} :
       \E h \in {[xp EXCEPT !.bands = c.bands, !.lists = c.lists, !.backend = c.list]} :
       \E chain \in {EQFilterChain_set_bands(xp.chain, Deref(h, h.backend))} :
          xp' = [h EXCEPT !.chain = chain,
                          !.given = [backend |-> Deref(xp, xp.caller),
                                     chain |-> chain.bands,
                                     filters |-> chain.filters],
                          !.pushes = xp.pushes + 1]
    /\ UNCHANGED <<fvars, evars, cvars>>

\* the values the caller writes into a field of a band
FieldValues ==
    [frequency |-> {20, 1000}, gain_db |-> {0, 6}, q |-> {50, 100}]

\* band.frequency = value, band.gain_db = value, band.q = value on one of the
\* caller's bands
EditBand ==
    /\ xp.pc = "handoff"
    /\ xp.edits < MaxEdits
    /\ \E i \in 1..Len(xp.lists[xp.caller]) :
       \E field \in DOMAIN FieldValues :
       \E value \in FieldValues[field] :
          /\ xp.bands[xp.lists[xp.caller][i]][field] # value
          /\ xp' = [xp EXCEPT !.bands[xp.lists[xp.caller][i]][field] = value,
                              !.edits = xp.edits + 1]
    /\ UNCHANGED <<fvars, evars, cvars>>

\* self.bands.append(EQBand(frequency=1000.0, gain_db=0.0, q=1.0))
AppendBand ==
    /\ xp.pc = "handoff"
    /\ xp.edits < MaxEdits
    /\ Len(xp.lists[xp.caller]) < MaxBands
    /\ xp' = [xp EXCEPT !.bands = Append(xp.bands, EQBand(1000, 0, 100, TRUE)),
                        !.lists[xp.caller] = Append(xp.lists[xp.caller], Len(xp.bands) + 1),
                        !.edits = xp.edits + 1]
    /\ UNCHANGED <<fvars, evars, cvars>>

\* del self.bands[row]
RemoveBand ==
    /\ xp.pc = "handoff"
    /\ xp.edits < MaxEdits
    /\ \E row \in 1..Len(xp.lists[xp.caller]) :
          xp' = [xp EXCEPT !.lists[xp.caller] =
                              SubSeq(xp.lists[xp.caller], 1, row - 1)
                              \o SubSeq(xp.lists[xp.caller], row + 1,
                                        Len(xp.lists[xp.caller])),
                           !.edits = xp.edits + 1]
    /\ UNCHANGED <<fvars, evars, cvars>>

NextHandoff == PushBands \/ EditBand \/ AppendBand \/ RemoveBand

SpecHandoff == InitHandoff /\ [][NextHandoff]_vars

\* C13: whatever the caller does to its band objects and to its list after
\* set_bands has returned, the backend's stored bands and the engine's stored
\* bands and filters are those of the last set_bands call.
CopyOnHandoff ==
    xp.pc = "handoff" =>
      /\ Deref(xp, xp.backend) = xp.given.backend
      /\ xp.chain.bands = xp.given.chain
      /\ xp.chain.filters = xp.given.filters

\* the caller has changed a band it had handed over and has lengthened its
\* list since
CopyOnHandoffWitness ==
    /\ xp.pc = "handoff"
    /\ xp.pushes > 0
    /\ xp.given.backend # <<>>
    /\ Len(xp.lists[xp.caller]) > Len(xp.given.backend)
    /\ xp.bands[xp.lists[xp.caller][1]] # xp.given.backend[1]

(***************************************************************************)
(* The cascade: one input block through a chain set to [a, b] and through  *)
(* a chain set to [b, a], each chain new.                                  *)
(***************************************************************************)
\* peaking bands with gain whose passbands overlap
CascadeBands ==
    {EQBand(1000, 6, 100, TRUE), EQBand(1000, -6, 50, TRUE),
     EQBand(2000, 12, 50, TRUE), EQBand(2000, -12, 100, TRUE)}

CascadeBlocks == {Block("f64", 1, Rows1(x)) : x \in Signals(MaxSig)}

NotRun == [done |-> FALSE, output |-> NoBlock, filters |-> <<>>]

\* chain = EQFilterChain(sample_rate, channels); chain.set_bands(bands);
\* chain.process(block)
RunChain(bands, block) ==
    With(EQFilterChain_process(
             EQFilterChain_set_bands(EQFilterChain_init(SampleRate, 1), bands), block),
         LAMBDA r : [done |-> TRUE, output |-> r.output, filters |-> r.chain.filters])

InitCascade ==
    /\ FilterIdle
    /\ NoThreads
    /\ engine = NoEngine
    /\ pre = NoEngine
    /\ last = NoCall
    /\ n_calls = 0
    /\ \E a \in CascadeBands, block \in CascadeBlocks :
       \E b \in CascadeBands \ {a} :
          xp = [pc |-> "cascade", a |-> a, b |-> b, block |-> block,
                ab |-> NotRun, ba |-> NotRun]

RunAB ==
    /\ xp.pc = "cascade"
    /\ ~xp.ab.done
    /\ xp' = [xp EXCEPT !.ab = RunChain(<<xp.a, xp.b>>, xp.block)]
    /\ UNCHANGED <<fvars, evars, cvars>>

RunBA ==
    /\ xp.pc = "cascade"
    /\ ~xp.ba.done
    /\ xp' = [xp EXCEPT !.ba = RunChain(<<xp.b, xp.a>>, xp.block)]
    /\ UNCHANGED <<fvars, evars, cvars>>

NextCascade == RunAB \/ RunBA

SpecCascade == InitCascade /\ [][NextCascade]_vars

\* the new filter of a band, as set_bands builds it
FilterOf(band) ==
    from_eq_band(EQBand_clip(band, MinFreq, MaxFreq(SampleRate)), SampleRate, 1)

\* run is what a chain set to [first, second] gives for block: the second
\* band's filter fed the output of the first band's filter fed the block
InListOrder(run, first, second, block) ==
    With(BiquadFilter_process(FilterOf(first), block),
         LAMBDA r1 :
           With(BiquadFilter_process(FilterOf(second), r1.y),
                LAMBDA r2 : /\ run.output = r2.y
                            /\ run.filters = <<r1.filt, r2.filt>>))

\* C17 as stated: the chain set to [a, b] and the chain set to [b, a] give
\* different outputs for the same input.
OrderChangesOutput ==
    xp.pc = "cascade" /\ xp.ab.done /\ xp.ba.done => xp.ab.output # xp.ba.output

\* C17: the chain feeds the block through its filters in list order: the chain
\* set to [a, b] returns what b's filter gives for the output of a's filter,
\* and the chain set to [b, a] what a's filter gives for the output of b's.
CascadeInListOrder ==
    xp.pc = "cascade" =>
      /\ xp.ab.done => InListOrder(xp.ab, xp.a, xp.b, xp.block)
      /\ xp.ba.done => InListOrder(xp.ba, xp.b, xp.a, xp.block)

\* both chains have run on a block that left registers in their filters, and
\* the filter of a holds other registers as the first filter than as the second
CascadeInListOrderWitness ==
    /\ xp.pc = "cascade"
    /\ xp.ab.done
    /\ xp.ba.done
    /\ Frames(xp.block) = 2
    /\ SomeRegisterSet(xp.ab.filters)
    /\ xp.ab.filters[1].state # xp.ba.filters[2].state

(***************************************************************************)
(* design_peaking_eq as a function: a band is designed, then a filter made *)
(* of the coefficients is fed a block.                                     *)
(***************************************************************************)
DesignRates == {SampleRate, 44100}

DesignBands ==
    {EQBand(frequency, gain_db, q, TRUE) :
        frequency \in {10, 1000, 2000, 30000}, gain_db \in {-6, 0, 12}, q \in {0, 50, 150}}
    \cup
    {EQBand(frequency, gain_db, q, FALSE) :
        frequency \in {0, 1000, 30000}, gain_db \in {-6, 0, 12}, q \in {-100, 0, 150}}

DesignBlocks ==
    {Block(dtype, 1, Rows1(x)) : dtype \in {"f32", "f64"}, x \in Signals(MaxSig)}

InitDesign ==
    /\ FilterIdle
    /\ NoThreads
    /\ engine = NoEngine
    /\ pre = NoEngine
    /\ last = NoCall
    /\ n_calls = 0
    /\ \E band \in DesignBands, sample_rate \in DesignRates, block \in DesignBlocks :
          xp = [pc |-> "design", given |-> band, band |-> band,
                sample_rate |-> sample_rate, block |-> block,
                b |-> <<>>, a |-> <<>>, y |-> NoBlock, filt |-> NoFilter]

\* b, a = design_peaking_eq(band, sample_rate): the band is only read
Design ==
    /\ xp.pc = "design"
    /\ \E c \in {design_peaking_eq(xp.band, xp.sample_rate)} :
          xp' = [xp EXCEPT !.pc = "designed", !.b = c.b, !.a = c.a]
    /\ UNCHANGED <<fvars, evars, cvars>>

\* y = BiquadFilter(b, a, 1).process(block)
FilterBlock ==
    /\ xp.pc = "designed"
    /\ \E r \in {BiquadFilter_process(BiquadFilter_init(xp.b, xp.a, 1), xp.block)} :
          xp' = [xp EXCEPT !.pc = "filtered", !.y = r.y, !.filt = r.filt]
    /\ UNCHANGED <<fvars, evars, cvars>>

NextDesign == Design \/ FilterBlock

SpecDesign == InitDesign /\ [][NextDesign]_vars

\* C18: an enabled band of gain 0 is designed with b equal to a, and the
\* filter made of them, from zero state, returns the input block unchanged and
\* has its registers at zero afterwards.
ZeroGainIdentity ==
    xp.pc \in {"designed", "filtered"} /\ xp.given.enabled /\ xp.given.gain_db = 0 =>
      /\ xp.b = xp.a
      /\ xp.pc = "filtered" =>
           /\ xp.y = xp.block
           /\ xp.filt.state = ZeroState(1)

\* a band of gain 0 whose frequency and Q were outside their ranges has
\* filtered a block of two non-zero samples
ZeroGainIdentityWitness ==
    /\ xp.pc = "filtered"
    /\ xp.given = EQBand(30000, 0, 0, TRUE)
    /\ Frames(xp.block) = 2
    /\ \A i \in 1..2 : xp.block.rows[i][1] # 0
    /\ xp.b[2] # 0

\* C19: a disabled band is designed with b = [1, 0, 0] and a = [1, 0, 0]
\* whatever its frequency, gain and Q and the sample rate, and the band is as
\* it was given.
DisabledIdentity ==
    xp.pc \in {"designed", "filtered"} /\ ~xp.given.enabled =>
      /\ xp.b = <<Fine, 0, 0>>
      /\ xp.a = <<Fine, 0, 0>>
      /\ xp.band = xp.given

\* a disabled band with gain, out of the frequency range, has been designed
DisabledIdentityWitness ==
    /\ xp.pc = "designed"
    /\ xp.given = EQBand(30000, 12, -100, FALSE)
    /\ xp.sample_rate = 44100
    /\ xp.b = <<Fine, 0, 0>>

(***************************************************************************)
(* The boost scenario of tools/test_dsp.py on the chain: a 1000 Hz sine of *)
(* two seconds through one +6 dB band in blocks of 1024 frames.  Samples,  *)
(* coefficients and registers are counted in ten-thousandths (Fine): the   *)
(* float32 store of the registers at the end of a block changes nothing on *)
(* that grid.                                                              *)
(***************************************************************************)
\* --duration, seconds
Duration == 2

\* block_size
BlockSize == 1024

\* --freq
BoostFreq == 1000

BoostBand == EQBand(BoostFreq, 6, 150, TRUE)

\* int(sample_rate * duration)
TotalFrames == SampleRate * Duration

\* samples in one period of the sine: sample_rate / freq
Period == SampleRate \div BoostFreq

\* np.sin(2 * np.pi * k / 48) for k = 0..12, in ten-thousandths
QuarterSine == <<0, 1305, 2588, 3827, 5000, 6088, 7071, 7934, 8660, 9239, 9659, 9914, Fine>>

\* np.sin(2 * np.pi * freq * n / sample_rate), in ten-thousandths
SinAt(n) ==
    LET k == n % Period
        half == Period \div 2
        j == k % half
        v == QuarterSine[(IF j <= half \div 2 THEN j ELSE half - j) + 1]
    IN IF k < half THEN v ELSE -v

CosAt(n) == SinAt(n + Period \div 4)

\* sine_wave: amplitude * np.sin(...), amplitude = 0.5
SineSample(n) == RoundDiv(SinAt(n), 2)

\* float64 product of two values counted in ten-thousandths
FMul(a, b) == RoundDiv(a * b, Fine)

\* BiquadFilter.__init__: b / a[0] and a / a[0]
Normalised(c) ==
    [b0 |-> RoundDiv(c.b[1] * Fine, c.a[1]),
     b1 |-> RoundDiv(c.b[2] * Fine, c.a[1]),
     b2 |-> RoundDiv(c.b[3] * Fine, c.a[1]),
     a1 |-> RoundDiv(c.a[2] * Fine, c.a[1]),
     a2 |-> RoundDiv(c.a[3] * Fine, c.a[1])]

\* the filter set_bands builds for the band
BoostFilter ==
    Normalised(design_peaking_eq(EQBand_clip(BoostBand, MinFreq, MaxFreq(SampleRate)),
                                 SampleRate))

\* one iteration of the loop of process: the output sample and the registers
SampleStep(f, sample, z) ==
    LET out == FMul(f.b0, sample) + z[1]
    IN [out |-> out,
        z |-> <<FMul(f.b1, sample) - FMul(f.a1, out) + z[2],
                FMul(f.b2, sample) - FMul(f.a2, out)>>]

\* the sums of a single-bin DFT at the sine's frequency with one more sample
Bin(dft, n, sample) ==
    <<dft[1] + FMul(sample, SinAt(n)), dft[2] + FMul(sample, CosAt(n))>>

Abs(v) == IF v < 0 THEN -v ELSE v

InitBoost ==
    /\ FilterIdle
    /\ NoThreads
    /\ engine = NoEngine
    /\ pre = NoEngine
    /\ last = NoCall
    /\ n_calls = 0
    /\ xp = [pc |-> "boost", n |-> 0, blocks |-> 0, filter |-> BoostFilter,
             state |-> ZeroState(DefaultChannels), z |-> ZeroState(DefaultChannels),
             peak |-> [ch \in 1..DefaultChannels |-> 0],
             dft_in |-> <<0, 0>>, dft_out |-> [ch \in 1..DefaultChannels |-> <<0, 0>>],
             amp_in |-> 0, amp_out |-> [ch \in 1..DefaultChannels |-> 0]]

\* one frame of the block being processed: an iteration of the loop on each
\* channel.  With the last frame of a block the registers are stored into
\* self.state, and the next block starts from them.
BoostFrame ==
    /\ xp.pc = "boost"
    /\ xp.n < TotalFrames
    /\ \E run \in {[ch \in 1..DefaultChannels |->
                      SampleStep(xp.filter, SineSample(xp.n),
                                 IF xp.n % BlockSize = 0 THEN xp.state[ch] ELSE xp.z[ch])]} :
       \E ends \in {(xp.n + 1) % BlockSize = 0 \/ xp.n + 1 = TotalFrames} :
          xp' = [xp EXCEPT
                   !.n = xp.n + 1,
                   !.z = [ch \in 1..DefaultChannels |-> run[ch].z],
                   !.state = IF ends THEN [ch \in 1..DefaultChannels |-> run[ch].z]
                             ELSE xp.state,
                   !.blocks = IF ends THEN xp.blocks + 1 ELSE xp.blocks,
                   !.peak = [ch \in 1..DefaultChannels |->
                               Max(xp.peak[ch], Abs(run[ch].out))],
                   !.dft_in = Bin(xp.dft_in, xp.n, SineSample(xp.n)),
                   !.dft_out = [ch \in 1..DefaultChannels |->
                                  Bin(xp.dft_out[ch], xp.n, run[ch].out)]]
    /\ UNCHANGED <<fvars, evars, cvars>>

\* the magnitude of a bin, on a scale that keeps its square in range
Magnitude(dft) ==
    LET re == RoundDiv(dft[1], Fine * 10)
        im == RoundDiv(dft[2], Fine * 10)
        v == re * re + im * im
    IN CHOOSE r \in 0..(Fine * 10) : r * r <= v /\ (r + 1) * (r + 1) > v

\* the single-bin amplitudes of the input and of the output
BoostMeasure ==
    /\ xp.pc = "boost"
    /\ xp.n = TotalFrames
    /\ xp' = [xp EXCEPT !.pc = "measured",
                        !.amp_in = Magnitude(xp.dft_in),
                        !.amp_out = [ch \in 1..DefaultChannels |->
                                       Magnitude(xp.dft_out[ch])]]
    /\ UNCHANGED <<fvars, evars, cvars>>

NextBoost == BoostFrame \/ BoostMeasure

SpecBoost == InitBoost /\ [][NextBoost]_vars

\* 10 ** (5.5 / 20) and 10 ** (6.5 / 20), in ten-thousandths
Tolerance == [low |-> 18836, high |-> 21135]

\* C20: the 1000 Hz amplitude of the processed signal is that of the input
\* raised by 6 dB, within 0.5 dB, on every channel, and no sample of it lies
\* above the input's amplitude raised by 6.5 dB.
EndToEndBoost ==
    /\ xp.pc \in {"boost", "measured"} =>
         \A ch \in 1..DefaultChannels : 2 * xp.peak[ch] <= Tolerance.high
    /\ xp.pc = "measured" =>
         \A ch \in 1..DefaultChannels :
            /\ Tolerance.low * xp.amp_in <= Fine * xp.amp_out[ch]
            /\ Fine * xp.amp_out[ch] <= Tolerance.high * xp.amp_in

\* the two seconds have gone through the chain in 94 blocks, the last one
\* shorter
EndToEndBoostWitness ==
    /\ xp.pc = "measured"
    /\ xp.n = 96000
    /\ xp.blocks = 94
    /\ xp.amp_in > 0
    /\ xp.amp_out[1] > xp.amp_in

(***************************************************************************)
(* The status queue.  The audio thread calls _put_status, one call at a    *)
(* time, and the control thread calls poll_status; every put_nowait and    *)
(* get_nowait of the queue is one atomic step and the two threads          *)
(* interleave between them.  backend.status is the queue.  The messages    *)
(* are numbered in the order _put_status is called with them.  xp holds    *)
(* the position of each thread and the history: put (the position of       *)
(* _put_status), message (its argument), raised (an exception left         *)
(* _put_status), lost (the messages _put_status gave up on), dropped (the  *)
(* messages its get_nowait removed), poll (the position of poll_status),   *)
(* messages (its local list), seen (the last message enqueued when its     *)
(* get_nowait raised Empty), result (what its last call returned), left    *)
(* (the queue when that call returned), mark (seen of that call), out (all *)
(* it has returned), puts and polls (the calls begun).                     *)
(***************************************************************************)
\* a queue without maxsize
put_nowait_unbounded(queue, message) == [exc |-> "none", queue |-> Append(queue, message)]

\* Queue.put_nowait(message): raises Full when the queue holds maxsize items
put_nowait(queue, message) ==
    IF Len(queue) < StatusMax
    THEN [exc |-> "none", queue |-> Append(queue, message)]
    ELSE [exc |-> "Full", queue |-> queue]

\* Queue.get_nowait(): the oldest item, or raises Empty
get_nowait(queue) ==
    IF queue = <<>>
    THEN [exc |-> "Empty", item |-> 0, queue |-> queue]
    ELSE [exc |-> "none", item |-> Head(queue), queue |-> Tail(queue)]

\* most calls of _put_status and of poll_status
StatusPuts == StatusMax + MaxCallbacks

StatusPolls == MaxCtl

InitStatus ==
    /\ FilterIdle
    /\ NoThreads
    /\ engine = NoEngine
    /\ pre = NoEngine
    /\ last = NoCall
    /\ n_calls = 0
    /\ xp = [pc |-> "status", put |-> "idle", message |-> 0, raised |-> FALSE,
             lost |-> <<>>, dropped |-> <<>>, poll |-> "idle", messages |-> <<>>,
             seen |-> 0, mark |-> 0, result |-> <<>>, left |-> <<>>, out |-> <<>>,
             puts |-> 0, polls |-> 0]

\* the exception exc is not one the except clause names
Escapes(exc, caught) == exc \notin {"none", caught}

\* _put_status(message) up to its first put_nowait
PutFirst ==
    /\ xp.pc = "status"
    /\ xp.put = "idle"
    /\ xp.puts < StatusPuts
    /\ \E r \in {put_nowait(backend.status, xp.puts + 1)} :
          /\ backend' = [backend EXCEPT !.status = r.queue]
          /\ xp' = [xp EXCEPT !.puts = xp.puts + 1, !.message = xp.puts + 1,
                              !.put = IF r.exc = "Full" THEN "full" ELSE "idle",
                              !.raised = xp.raised \/ Escapes(r.exc, "Full")]
    /\ UNCHANGED <<lock, list_id, lists, ctl, cb, outdata, published, fvars, evars>>

\* except queue.Full: get_nowait, an Empty ignored
PutMakeRoom ==
    /\ xp.pc = "status"
    /\ xp.put = "full"
    /\ \E r \in {get_nowait(backend.status)} :
          /\ backend' = [backend EXCEPT !.status = r.queue]
          /\ xp' = [xp EXCEPT !.put = "retry",
                              !.dropped = IF r.exc = "none" THEN Append(xp.dropped, r.item)
                                          ELSE xp.dropped,
                              !.raised = xp.raised \/ Escapes(r.exc, "Empty")]
    /\ UNCHANGED <<lock, list_id, lists, ctl, cb, outdata, published, fvars, evars>>

\* the second put_nowait, a Full ignored
PutRetry ==
    /\ xp.pc = "status"
    /\ xp.put = "retry"
    /\ \E r \in {put_nowait(backend.status, xp.message)} :
          /\ backend' = [backend EXCEPT !.status = r.queue]
          /\ xp' = [xp EXCEPT !.put = "idle",
                              !.lost = IF r.exc = "Full" THEN Append(xp.lost, xp.message)
                                       ELSE xp.lost,
                              !.raised = xp.raised \/ Escapes(r.exc, "Full")]
    /\ UNCHANGED <<lock, list_id, lists, ctl, cb, outdata, published, fvars, evars>>

\* poll_status: messages = []
PollBegin ==
    /\ xp.pc = "status"
    /\ xp.poll = "idle"
    /\ xp.polls < StatusPolls
    /\ xp' = [xp EXCEPT !.poll = "loop", !.messages = <<>>, !.polls = xp.polls + 1]
    /\ UNCHANGED <<cvars, fvars, evars>>

\* one round of the loop: get_nowait, appended to messages, or Empty and break
PollGet ==
    /\ xp.pc = "status"
    /\ xp.poll = "loop"
    /\ \E r \in {get_nowait(backend.status)} :
          /\ backend' = [backend EXCEPT !.status = r.queue]
          /\ xp' = IF r.exc = "Empty"
                   THEN [xp EXCEPT !.poll = "break",
                                   !.seen = IF xp.put = "idle" THEN xp.puts
                                            ELSE xp.puts - 1]
                   ELSE [xp EXCEPT !.messages = Append(xp.messages, r.item)]
    /\ UNCHANGED <<lock, list_id, lists, ctl, cb, outdata, published, fvars, evars>>

\* return messages
PollReturn ==
    /\ xp.pc = "status"
    /\ xp.poll = "break"
    /\ xp' = [xp EXCEPT !.poll = "idle", !.result = xp.messages, !.messages = <<>>,
                        !.left = backend.status, !.mark = xp.seen,
                        !.out = xp.out \o xp.messages]
    /\ UNCHANGED <<cvars, fvars, evars>>

NextStatus ==
    PutFirst \/ PutMakeRoom \/ PutRetry \/ PollBegin \/ PollGet \/ PollReturn

SpecStatus == InitStatus /\ [][NextStatus]_vars

\* the members of a sequence
Members(seq) == {seq[i] : i \in 1..Len(seq)}

\* a sequence of messages in the order they were put, none twice
Increasing(seq) == \A i \in 1..(Len(seq) - 1) : seq[i] < seq[i + 1]

\* the messages whose _put_status has returned
PutDone == 1..(IF xp.put = "idle" THEN xp.puts ELSE xp.puts - 1)

\* what holds of the queue whatever poll_status finds on its return: the bound,
\* no exception out of _put_status, no message given up, every message whose
\* _put_status has returned in the queue, with poll_status, or removed by a
\* later _put_status that found the queue full, and the order
StatusQueueKept ==
    /\ Len(backend.status) <= StatusMax
    /\ ~xp.raised
    /\ xp.lost = <<>>
    /\ PutDone = Members(backend.status) \cup Members(xp.messages)
                   \cup Members(xp.out) \cup Members(xp.dropped)
    /\ Increasing(xp.out \o xp.messages \o backend.status)
    /\ Increasing(xp.dropped)
    /\ Members(xp.dropped) \cap Members(xp.out \o xp.messages \o backend.status) = {}

====
